---- MODULE Spec2Model ----
(***************************************************************************)
(* Model of the UIUC Chat proxy (the Vercel Edge Function `handler`): one  *)
(* invocation walks the endpoint list with POST, falls through to GET with *)
(* query parameters, and answers the caller once.  Every `await` of the    *)
(* handler is a suspension point and so a step boundary of the model.      *)
(*                                                                         *)
(* The second half models the client's stream consumer (chatWithVideo,     *)
(* chatWithAllVideos and parseStreamingResponse of lib/openai.ts): one     *)
(* call of the async generator, with the bytes of the response body cut    *)
(* into chunks by the transport and decoded by a streaming UTF-8 decoder.  *)
(*                                                                         *)
(* The third part models the chat components inside App (ChatWithVideo and *)
(* ChatWithAll: handleSubmit, the conversation state, navigation), and the *)
(* last part composes client, proxy and upstream end to end.               *)
(***************************************************************************)
EXTENDS Integers, Sequences, FiniteSets, TLC

VARIABLES
    pc,             \* position of the handler: idle, json, postFetch, postText, getFetch, getText, done
    req,            \* the inbound Request: [method, body]
    body,           \* const body = await req.json()
    i,              \* position of the running for-of loop in endpoints (1-based)
    lastStatus,     \* let lastStatus
    lastErrorText,  \* let lastErrorText
    calls,          \* every upstream fetch issued so far, with what came back
    responses,      \* the Response objects returned to the caller
    escaped,        \* exceptions that left the handler uncaught
    thrown,         \* every exception raised inside the handler, with the await that raised it
    bodyText,       \* the text most recently read from an upstream error body
    bodyRead,       \* whether req.json() has been called
    gen,            \* position of the generator: idle, fetch, text, read, yield, returned, threw
    apiKey,         \* import.meta.env.VITE_UIUC_CHAT_API_KEY
    chatArgs,       \* the arguments the generator function was called with
    fetches,        \* every request the client has issued
    chatResponse,   \* const response = await fetch('/api/chat', ...)
    wire,           \* bytes of the response body the transport has not delivered yet
    delivered,      \* the chunks reader.read() has delivered, in arrival order
    decoder,        \* const decoder = new TextDecoder(): its internal state
    fragments,      \* the strings yielded so far
    locked,         \* whether the stream is locked to the reader
    eos,            \* whether reader.read() has answered { done: true }
    raised,         \* what the generator has thrown to its caller
    chatErrorText,  \* the text most recently read from a non-ok response
    activeTab,      \* App: const [activeTab, setActiveTab] = useState('search')
    selectedVideo,  \* App: const [selectedVideo, setSelectedVideo] = useState(null); 0 is null
    messages,       \* the mounted chat component: const [messages, setMessages] = useState([])
    input,          \* the mounted chat component: const [input, setInput] = useState('')
    isStreaming,    \* the mounted chat component: const [isStreaming, setIsStreaming] = useState(false)
    assistantMessage, \* content of the object `assistantMessage` of the running handleSubmit
    inFlight,       \* calls of handleSubmit of the mounted component that have not reached `finally`
    discarded,      \* the conversation most recently reset: its video (0 is none) and its length
    upstreamBody,   \* the text of the body of the upstream answer that the proxy relays
    suspended,      \* the local state of a second invocation of the handler, not running now
    detached        \* the turns of unmounted chat components that are still running

handlerVars == <<pc, req, body, i, lastStatus, lastErrorText, calls, responses, escaped, thrown, bodyText, bodyRead>>

consumerVars == <<gen, apiKey, chatArgs, fetches, chatResponse, wire, delivered, decoder, fragments, locked, eos, raised, chatErrorText>>

uiVars == <<activeTab, selectedVideo, messages, input, isStreaming, assistantMessage, inFlight, discarded>>

vars == <<handlerVars, consumerVars, uiVars, upstreamBody, suspended, detached>>

-----------------------------------------------------------------------------
(* JSON values of the inbound body, as JavaScript sees them after parsing. *)

Undefined == [type |-> "undefined", v |-> "undefined"]
Str(s) == [type |-> "string", v |-> s]
Bool(b) == [type |-> "boolean", v |-> b]
Num(n) == [type |-> "number", v |-> n]
Arr(json) == [type |-> "array", v |-> json]

\* JavaScript truthiness, as used by `if (x)` and by Boolean(x)
Truthy(x) ==
    CASE x.type = "undefined" -> FALSE
      [] x.type = "string" -> x.v # ""
      [] x.type = "boolean" -> x.v = "true"
      [] x.type = "number" -> x.v # "0"
      [] OTHER -> TRUE

\* String(x); String(Boolean(x))
JsString(x) == x.v
BooleanString(x) == IF Truthy(x) THEN "true" ELSE "false"

BodyFields == {"model", "messages", "api_key", "course_name", "stream", "temperature", "retrieval_only"}

EmptyObject == [f \in BodyFields |-> Undefined]

FullChatRequest ==
    [EmptyObject EXCEPT !["model"] = Str("m"),
                        !["messages"] = Arr("[{role:user,content:hello}]"),
                        !["api_key"] = Str("key-1"),
                        !["course_name"] = Str("course-1"),
                        !["stream"] = Bool("true"),
                        !["temperature"] = Num("0.7"),
                        !["retrieval_only"] = Bool("false")]

KeylessChatRequest ==
    [FullChatRequest EXCEPT !["api_key"] = Str(""),
                            !["course_name"] = Undefined,
                            !["temperature"] = Num("0"),
                            !["retrieval_only"] = Undefined]

KeyOnlyChatRequest ==
    [FullChatRequest EXCEPT !["api_key"] = Str("key-2"),
                            !["course_name"] = Str("")]

CourseOnlyChatRequest ==
    [FullChatRequest EXCEPT !["api_key"] = Undefined,
                            !["course_name"] = Str("course-2")]

\* a body whose fields are there with values of other types than the client sends
OddChatRequest ==
    [FullChatRequest EXCEPT !["model"] = Str(""),
                            !["messages"] = Str("hello"),
                            !["stream"] = Str("false"),
                            !["temperature"] = Num("0"),
                            !["retrieval_only"] = Num("1")]

\* what req.json() can be asked to parse: text that is not JSON, or a JSON value
InboundBodies ==
    {[valid |-> FALSE, json |-> EmptyObject]}
    \cup {[valid |-> TRUE, json |-> j] :
             j \in {EmptyObject, FullChatRequest, KeylessChatRequest,
                    KeyOnlyChatRequest, CourseOnlyChatRequest, OddChatRequest}}

Methods == {"OPTIONS", "POST", "GET", "PUT"}

-----------------------------------------------------------------------------
(* What the upstream can do with one fetch.                                *)

\* mutation of endpoints: the third candidate is the first one again
endpoints_repeated ==
    << "https://uiuc.chat/api/chat-api/chat",
       "https://uiuc.chat/api/chat-api/chat/",
       "https://uiuc.chat/api/chat-api/chat",
       "https://uiuc.chat/chat-api/chat/" >>

endpoints ==
    << "https://uiuc.chat/api/chat-api/chat",
       "https://uiuc.chat/api/chat-api/chat/",
       "https://uiuc.chat/chat-api/chat",
       "https://uiuc.chat/chat-api/chat/" >>

Absent == "<absent>"

OkStatuses == {200, 201}
FailStatuses == {400, 401, 405, 500}

ReasonPhrase(status) ==
    CASE status = 400 -> "Bad Request"
      [] status = 401 -> "Unauthorized"
      [] status = 405 -> "Method Not Allowed"
      [] status = 500 -> "Internal Server Error"
      [] OTHER -> ""

MaxErrorBodies == 2
ErrorBodyNames == <<"Invalid JSON", "POST not supported", "upstream-error-c", "upstream-error-d">>
ErrorBodies == {""} \cup {ErrorBodyNames[n] : n \in 1..MaxErrorBodies}

\* a resolved fetch: status, statusText (which may be empty, as over HTTP/2) and the
\* content-type header; the body is read later, by the caller or by text()
Answers ==
    [status : OkStatuses, statusText : {"OK"}, contentType : {Absent, "application/json"}]
    \cup {[status |-> s, statusText |-> ReasonPhrase(s), contentType |-> "text/plain"] : s \in FailStatuses}
    \cup {[status |-> s, statusText |-> "", contentType |-> "text/plain"] : s \in FailStatuses \ {405}}

\* thrown values: Error instances with a message, or something that is not an Error
Exceptions ==
    {[isError |-> TRUE, message |-> "fetch failed"],
     [isError |-> FALSE, message |-> "thrown-non-error"]}

ParseErrors == {[isError |-> TRUE, message |-> "Unexpected token in JSON"]}

Pending == [kind |-> "pending"]

-----------------------------------------------------------------------------
(* The pieces of the handler that decide something.                        *)

\* mutation of IsOk: only 200 counts as success
IsOk_only200(status) == status = 200

\* Response.ok
IsOk(status) == status >= 200 /\ status <= 299

\* mutation of IsPreflight: the OPTIONS branch is missing
IsPreflight_never(method) == FALSE

\* if (req.method === 'OPTIONS')
IsPreflight(method) == method = "OPTIONS"

\* new Response(null, { status: 204, headers: {...} })
PreflightResponse ==
    [status |-> 204,
     body |-> [kind |-> "null"],
     headers |-> ("Access-Control-Allow-Origin" :> <<"*">>)
              @@ ("Access-Control-Allow-Methods" :> <<"POST", "OPTIONS">>)
              @@ ("Access-Control-Allow-Headers" :> <<"Content-Type", "Accept">>)
              @@ ("Access-Control-Max-Age" :> <<"86400">>)]

\* mutation of MethodNotAllowedResponse: other methods are answered 400
MethodNotAllowedResponse_badRequest ==
    [status |-> 400,
     body |-> [kind |-> "text", text |-> "Method not allowed"],
     headers |-> <<>>]

\* new Response('Method not allowed', { status: 405 })
MethodNotAllowedResponse ==
    [status |-> 405,
     body |-> [kind |-> "text", text |-> "Method not allowed"],
     headers |-> <<>>]

\* mutation of AuthHeaders: the key is sent as a bearer token only
AuthHeaders_bearerOnly(b) ==
    (IF Truthy(b["api_key"])
       THEN ("Authorization" :> <<"Bearer", JsString(b["api_key"])>>)
       ELSE <<>>)
    @@ (IF Truthy(b["course_name"])
          THEN ("x-course-name" :> <<JsString(b["course_name"])>>)
          ELSE <<>>)

\* the API key and course name, relayed as headers when truthy
AuthHeaders(b) ==
    (IF Truthy(b["api_key"])
       THEN ("Authorization" :> <<"Bearer", JsString(b["api_key"])>>)
            @@ ("x-api-key" :> <<JsString(b["api_key"])>>)
       ELSE <<>>)
    @@ (IF Truthy(b["course_name"])
          THEN ("x-course-name" :> <<JsString(b["course_name"])>>)
          ELSE <<>>)

\* headers of a POST attempt
PostHeaders(b) ==
    ("Content-Type" :> <<"application/json">>)
    @@ ("Accept" :> <<"text/event-stream">>)
    @@ AuthHeaders(b)

\* mutation of GetHeaders: the GET attempt does not ask for an event stream
GetHeaders_noAccept(b) == AuthHeaders(b)

\* headersGet
GetHeaders(b) ==
    ("Accept" :> <<"text/event-stream">>) @@ AuthHeaders(b)

\* mutation of QueryParams: temperature is set only when it is truthy
QueryParams_truthyTemperature(b) ==
    (IF Truthy(b["model"]) THEN << <<"model", JsString(b["model"])>> >> ELSE <<>>)
    \o (IF b["messages"].type = "array" THEN << <<"messages", b["messages"].v>> >> ELSE <<>>)
    \o (IF Truthy(b["course_name"]) THEN << <<"course_name", JsString(b["course_name"])>> >> ELSE <<>>)
    \o (IF b["stream"].type # "undefined" THEN << <<"stream", BooleanString(b["stream"])>> >> ELSE <<>>)
    \o (IF Truthy(b["temperature"]) THEN << <<"temperature", JsString(b["temperature"])>> >> ELSE <<>>)
    \o (IF b["retrieval_only"].type # "undefined"
          THEN << <<"retrieval_only", BooleanString(b["retrieval_only"])>> >> ELSE <<>>)

\* params: the URLSearchParams built from the body, in the order they are set
QueryParams(b) ==
    (IF Truthy(b["model"]) THEN << <<"model", JsString(b["model"])>> >> ELSE <<>>)
    \o (IF b["messages"].type = "array" THEN << <<"messages", b["messages"].v>> >> ELSE <<>>)
    \o (IF Truthy(b["course_name"]) THEN << <<"course_name", JsString(b["course_name"])>> >> ELSE <<>>)
    \o (IF b["stream"].type # "undefined" THEN << <<"stream", BooleanString(b["stream"])>> >> ELSE <<>>)
    \o (IF b["temperature"].type # "undefined" THEN << <<"temperature", JsString(b["temperature"])>> >> ELSE <<>>)
    \o (IF b["retrieval_only"].type # "undefined"
          THEN << <<"retrieval_only", BooleanString(b["retrieval_only"])>> >> ELSE <<>>)

\* fetch(url, { method: 'POST', headers, body: JSON.stringify(body) })
PostRequest(url, b) ==
    [method |-> "POST", url |-> url, query |-> <<>>, hasQuery |-> FALSE,
     headers |-> PostHeaders(b), payload |-> [kind |-> "json", json |-> b],
     answer |-> Pending, textState |-> "unread"]

\* mutation of GetRequest: the API key is sent as a query parameter too
GetRequest_keyInQuery(base, b) ==
    [method |-> "GET", url |-> base,
     query |-> QueryParams(b)
               \o (IF Truthy(b["api_key"])
                     THEN << <<"api_key", JsString(b["api_key"])>> >> ELSE <<>>),
     hasQuery |-> TRUE,
     headers |-> GetHeaders(b), payload |-> [kind |-> "none"],
     answer |-> Pending, textState |-> "unread"]

\* fetch(`${base}?${params.toString()}`, { method: 'GET', headers: headersGet })
GetRequest(base, b) ==
    [method |-> "GET", url |-> base, query |-> QueryParams(b), hasQuery |-> TRUE,
     headers |-> GetHeaders(b), payload |-> [kind |-> "none"],
     answer |-> Pending, textState |-> "unread"]

\* upstream.headers.get('content-type') || 'text/event-stream'
ContentTypeOf(ans) ==
    IF ans.contentType \in {Absent, ""} THEN "text/event-stream" ELSE ans.contentType

\* mutation of RelayResponse: the relay also sets Connection: keep-alive
RelayResponse_keepAlive(ans, k) ==
    [status |-> ans.status,
     body |-> [kind |-> "stream", call |-> k],
     headers |-> ("Content-Type" :> <<"text/event-stream">>)
              @@ ("Cache-Control" :> <<"no-cache">>)
              @@ ("Connection" :> <<"keep-alive">>)
              @@ ("Access-Control-Allow-Origin" :> <<"*">>)]

\* new Response(upstream.body, { status: upstream.status, headers: {...} });
\* the body is the stream of upstream call k, handed over unread
RelayResponse(ans, k) ==
    [status |-> ans.status,
     body |-> [kind |-> "stream", call |-> k],
     headers |-> ("Content-Type" :> <<ContentTypeOf(ans)>>)
              @@ ("Cache-Control" :> <<"no-cache">>)
              @@ ("Access-Control-Allow-Origin" :> <<"*">>)]

\* (await upstream.text()) || upstream.statusText
ErrorText(text, statusText) == IF text # "" THEN text ELSE statusText

\* mutation of TryNext: 405 breaks out of the loop like any other failure
TryNext_never(status) == FALSE

\* if (upstream.status === 405) continue; else break;
TryNext(status) == status = 405

\* mutation of UpstreamErrorResponse: the final error always has status 500
UpstreamErrorResponse_always500(status, errorText) ==
    [status |-> 500,
     body |-> [kind |-> "upstreamError", prefix |-> "UIUC Chat upstream error",
               status |-> status, errorText |-> errorText],
     headers |-> <<>>]

\* new Response(`UIUC Chat upstream error (${lastStatus}): ${lastErrorText}`, { status: lastStatus })
UpstreamErrorResponse(status, errorText) ==
    [status |-> status,
     body |-> [kind |-> "upstreamError", prefix |-> "UIUC Chat upstream error",
               status |-> status, errorText |-> errorText],
     headers |-> <<>>]

\* mutations of OuterCatch: the message is dropped; the exception is thrown on; the
\* status is 400
OuterCatch_generic(err) ==
    [kind |-> "return",
     response |-> [status |-> 500,
                   body |-> [kind |-> "text", text |-> "Internal server error"],
                   headers |-> <<>>]]

OuterCatch_rethrow(err) == [kind |-> "throw", exception |-> err]

OuterCatch_badRequest(err) ==
    [kind |-> "return",
     response |-> [status |-> 400,
                   body |-> [kind |-> "text",
                             text |-> IF err.isError THEN err.message ELSE "Internal server error"],
                   headers |-> <<>>]]

\* catch (err): err instanceof Error ? err.message : 'Internal server error', status 500
OuterCatch(err) ==
    [kind |-> "return",
     response |-> [status |-> 500,
                   body |-> [kind |-> "text",
                             text |-> IF err.isError THEN err.message ELSE "Internal server error"],
                   headers |-> <<>>]]

Return(response) == [kind |-> "return", response |-> response]

\* the handler's promise settles: with a Response, or with an uncaught exception
Settle(outcome) ==
    /\ pc' = "done"
    /\ IF outcome.kind = "return"
         THEN responses' = Append(responses, outcome.response) /\ UNCHANGED escaped
         ELSE escaped' = Append(escaped, outcome.exception) /\ UNCHANGED responses

-----------------------------------------------------------------------------
(* The stream consumer: the response body as bytes, and the TextDecoder.   *)

\* the longest response body, in bytes
MaxBodyLen == 3

\* bytes a body is made of: 'A', line feed, and the lead and continuation bytes of
\* two-byte and three-byte characters (C3 A9 is U+00E9, E2 82 A9 is U+20A9); the
\* alphabet has no byte-order mark
ByteAlphabet == {65, 10, 195, 169, 226, 130}

\* response.body: every byte string up to MaxBodyLen, well-formed UTF-8 or not
Bodies == UNION {[1..n -> ByteAlphabet] : n \in 0..MaxBodyLen}

\* U+FFFD, what the decoder puts in place of a malformed sequence
ReplacementCharacter == 65533

\* new TextDecoder(): utf-8, not fatal; no character is in progress
NewDecoder == [cp |-> 0, seen |-> 0, needed |-> 0, lower |-> 128, upper |-> 191]

\* the UTF-8 decoder's handler for one byte: the next state, the code points it emits
\* and whether the byte has to be handled again
HandleByte(st, b) ==
    IF st.needed = 0
      THEN CASE b <= 127 ->
                  [state |-> NewDecoder, out |-> <<b>>, again |-> FALSE]
             [] b \in 194..223 ->
                  [state |-> [NewDecoder EXCEPT !.needed = 1, !.cp = b - 192],
                   out |-> <<>>, again |-> FALSE]
             [] b \in 224..239 ->
                  [state |-> [NewDecoder EXCEPT !.needed = 2, !.cp = b - 224,
                                                !.lower = IF b = 224 THEN 160 ELSE 128,
                                                !.upper = IF b = 237 THEN 159 ELSE 191],
                   out |-> <<>>, again |-> FALSE]
             [] b \in 240..244 ->
                  [state |-> [NewDecoder EXCEPT !.needed = 3, !.cp = b - 240,
                                                !.lower = IF b = 240 THEN 144 ELSE 128,
                                                !.upper = IF b = 244 THEN 143 ELSE 191],
                   out |-> <<>>, again |-> FALSE]
             [] OTHER ->
                  [state |-> NewDecoder, out |-> <<ReplacementCharacter>>, again |-> FALSE]
      ELSE IF b \notin st.lower..st.upper
             THEN [state |-> NewDecoder, out |-> <<ReplacementCharacter>>, again |-> TRUE]
             ELSE IF st.seen + 1 = st.needed
                    THEN [state |-> NewDecoder,
                          out |-> <<st.cp * 64 + (b - 128)>>, again |-> FALSE]
                    ELSE [state |-> [st EXCEPT !.cp = st.cp * 64 + (b - 128),
                                               !.seen = st.seen + 1,
                                               !.lower = 128, !.upper = 191],
                          out |-> <<>>, again |-> FALSE]

\* the decoder run over a byte string from state st, keeping what is left unfinished
RECURSIVE DecodeBytes(_, _)
DecodeBytes(st, bytes) ==
    IF bytes = <<>>
      THEN [state |-> st, out |-> <<>>]
      ELSE LET h == HandleByte(st, Head(bytes))
               rest == DecodeBytes(h.state, IF h.again THEN bytes ELSE Tail(bytes))
           IN [state |-> rest.state, out |-> h.out \o rest.out]

\* end of input: a character still in progress becomes U+FFFD
Flush(st) ==
    [state |-> NewDecoder,
     out |-> IF st.needed # 0 THEN <<ReplacementCharacter>> ELSE <<>>]

\* mutation of DecodeChunk: decoder.decode(value), every chunk decoded as a whole text
DecodeChunk_noStream(st, value) ==
    LET d == DecodeBytes(st, value)
    IN [state |-> NewDecoder, out |-> d.out \o Flush(d.state).out]

\* decoder.decode(value, { stream: true })
DecodeChunk(st, value) == DecodeBytes(st, value)

\* mutation of Break: an empty decoded chunk ends the loop as well
Break_onEmptyChunk(done, chunk) == done \/ chunk = <<>>

\* if (done) break;
Break(done, chunk) == done

\* if (chunk) { yield chunk; }
Yields(chunk) == chunk # <<>>

\* the two generator functions
ChatFunctions == {"chatWithVideo", "chatWithAllVideos"}

\* values of VITE_UIUC_CHAT_API_KEY: not set, set to nothing, or set
ApiKeys == {Undefined, Str(""), Str("key-1")}

\* mutation of Configured: the key check is missing
Configured_always(key) == TRUE

\* if (!apiKey) throw ...
Configured(key) == Truthy(key)

\* new Error('UIUC Chat API key not configured. ...')
NotConfiguredError ==
    [isError |-> TRUE,
     message |-> "UIUC Chat API key not configured. Please add VITE_UIUC_CHAT_API_KEY to your .env file."]

\* a string kept as a stretch of a named text: its code units from..from+len-1
Text(name, len) == [text |-> name, from |-> 0, len |-> len]

EmptyString == Text(<<>>, 0)

Min(a, b) == IF a <= b THEN a ELSE b
Max(a, b) == IF a >= b THEN a ELSE b

\* String.prototype.substring(start, end): both clamped to 0..length, swapped when
\* start > end
Substring(s, start, end) ==
    LET a == Min(Max(start, 0), s.len)
        b == Min(Max(end, 0), s.len)
        lo == Min(a, b)
        hi == Max(a, b)
    IN IF hi = lo THEN EmptyString
       ELSE [text |-> s.text, from |-> s.from + lo, len |-> hi - lo]

\* s || fallback, for strings
OrElse(s, fallback) == IF s.len = 0 THEN fallback ELSE s

\* the 15000 of transcript.substring(0, 15000)
TranscriptLimit == 15000

\* 'No transcript available' and 'No summary available'
NoTranscript == Text(<<"No transcript available">>, 23)
NoSummary == Text(<<"No summary available">>, 20)

\* mutation of TranscriptExcerpt: the excerpt is the end of the transcript
TranscriptExcerpt_fromEnd(transcript) ==
    OrElse(Substring(transcript, transcript.len - TranscriptLimit, transcript.len), NoTranscript)

\* const transcriptExcerpt = transcript.substring(0, 15000) || 'No transcript available'
TranscriptExcerpt(transcript) ==
    OrElse(Substring(transcript, 0, TranscriptLimit), NoTranscript)

\* the content of a chat message: literal strings followed by decoded characters
Content(literal, chars) == [literal |-> literal, chars |-> chars]
EmptyContent == Content(<<>>, <<>>)

\* mutation of LastUserMessage: the first message of the list is taken
LastUserMessage_first(history) ==
    IF history = <<>> THEN EmptyContent ELSE history[1].content

\* const userMessage = messages[messages.length - 1]?.content || ''
LastUserMessage(history) ==
    IF history = <<>> THEN EmptyContent ELSE history[Len(history)].content

\* the system message of both functions
SystemMessage ==
    [role |-> "system",
     content |-> Content(<<"You are a helpful AI assistant. Answer questions based ONLY on the information provided. Do not add document citations.">>, <<>>)]

\* combinedMessage of chatWithVideo: the template with its interpolated values
VideoMessage(call) ==
    [template |-> "Here is a transcript from the NBER Economics of Transformative AI Workshop",
     title |-> call.title,
     presenters |-> call.presenterNames,
     transcriptExcerpt |-> TranscriptExcerpt(call.transcript),
     userMessage |-> LastUserMessage(call.messages)]

\* mutation of SummariesMessage: a video without a summary is sent with its transcript
SummariesMessage_transcriptFallback(call) ==
    [template |-> "Here are summaries from ${videos.length} presentations",
     count |-> Len(call.videos),
     summariesContext |->
        [k \in DOMAIN call.videos |->
            [title |-> call.videos[k].title,
             presenterNames |-> call.videos[k].presenters,
             summary |-> OrElse(call.videos[k].ai_summary, call.videos[k].transcript)]],
     userMessage |-> LastUserMessage(call.messages)]

\* combinedMessage of chatWithAllVideos: the template with its interpolated values
SummariesMessage(call) ==
    [template |-> "Here are summaries from ${videos.length} presentations",
     count |-> Len(call.videos),
     summariesContext |->
        [k \in DOMAIN call.videos |->
            [title |-> call.videos[k].title,
             presenterNames |-> call.videos[k].presenters,
             summary |-> OrElse(call.videos[k].ai_summary, NoSummary)]],
     userMessage |-> LastUserMessage(call.messages)]

CombinedMessage(call) ==
    IF call.fn = "chatWithVideo" THEN VideoMessage(call) ELSE SummariesMessage(call)

\* import.meta.env.VITE_UIUC_CHAT_COURSE_NAME || 'experimental-chatbot'
CourseName(env) ==
    IF Truthy(env.courseName) THEN JsString(env.courseName) ELSE "experimental-chatbot"

\* mutation of ChatFetch: the context is put into the system message and the user
\* message is the question alone
ChatFetch_contextInSystem(call, env) ==
    [method |-> "POST", url |-> "/api/chat",
     headers |-> ("Content-Type" :> <<"application/json">>),
     payload |-> [model |-> "Qwen/Qwen2.5-VL-72B-Instruct",
                  messages |-> <<[role |-> "system", content |-> CombinedMessage(call)],
                                 [role |-> "user",
                                  content |-> LastUserMessage(call.messages)]>>,
                  api_key |-> JsString(env.apiKey),
                  course_name |-> CourseName(env),
                  stream |-> TRUE,
                  temperature |-> "0.7",
                  retrieval_only |-> FALSE]]

\* fetch('/api/chat', { method: 'POST', headers: {...}, body: JSON.stringify({...}) })
ChatFetch(call, env) ==
    [method |-> "POST", url |-> "/api/chat",
     headers |-> ("Content-Type" :> <<"application/json">>),
     payload |-> [model |-> "Qwen/Qwen2.5-VL-72B-Instruct",
                  messages |-> <<SystemMessage,
                                 [role |-> "user", content |-> CombinedMessage(call)]>>,
                  api_key |-> JsString(env.apiKey),
                  course_name |-> CourseName(env),
                  stream |-> TRUE,
                  temperature |-> "0.7",
                  retrieval_only |-> FALSE]]

\* the videos of the workshop, as far as the chat functions read them
Video(id, transcriptLen, summaryLen) ==
    [id |-> id, title |-> <<"title", id>>, presenters |-> <<"presenter", id>>,
     transcript |-> Text(<<"transcript", id>>, transcriptLen),
     ai_summary |-> Text(<<"summary", id>>, summaryLen)]

\* a call of chatWithVideo for a video, and a call of chatWithAllVideos
VideoCall(video, history) ==
    [fn |-> "chatWithVideo", title |-> video.title, presenterNames |-> video.presenters,
     transcript |-> video.transcript, videos |-> <<>>, messages |-> history]

AllVideosCall(videos, history) ==
    [fn |-> "chatWithAllVideos", title |-> <<>>, presenterNames |-> <<>>,
     transcript |-> EmptyString, videos |-> videos, messages |-> history]

\* before the generator function is called there are no arguments
NoCall ==
    [fn |-> "none", title |-> <<>>, presenterNames |-> <<>>,
     transcript |-> EmptyString, videos |-> <<>>, messages |-> <<>>]

\* a user message and an assistant message with given characters
UserSays(chars) == [role |-> "user", content |-> Content(<<>>, chars)]
AssistantSays(chars) == [role |-> "assistant", content |-> Content(<<>>, chars)]

\* the environment of a build: the API key and the course name
Env(key, course) == [apiKey |-> key, courseName |-> course]

\* calls and environments of the stream consumer taken alone
ConsumerCalls ==
    {VideoCall(Video(1, 40, 10), <<UserSays(<<113>>)>>),
     AllVideosCall(<<Video(1, 40, 10)>>, <<UserSays(<<113>>)>>)}

ConsumerEnvs == {Env(key, Undefined) : key \in ApiKeys}

\* calls and environments for looking at the request that is built: transcripts of
\* lengths around the limit, lists of videos, and message lists of several lengths
TranscriptLengths == {0, 1, 14999, 15000, 15001, 50000}

Histories ==
    {<<>>,
     <<UserSays(<<113>>)>>,
     <<UserSays(<<113>>), AssistantSays(<<97>>), UserSays(<<114>>)>>}

\* the number of summaries the documentation gives as the limit of the multi-video chat
SummaryLimit == 10

VideoLists ==
    {<<>>, <<Video(1, 40, 10)>>, <<Video(1, 40, 10), Video(2, 0, 0)>>,
     <<Video(1, 40, 10), Video(3, 40, 0)>>,
     [k \in 1..SummaryLimit |-> Video(k, 40, 10)],
     [k \in 1..(SummaryLimit + 1) |-> Video(k, 40, 10)]}

RequestCalls ==
    {VideoCall(Video(1, n, 10), h) : n \in TranscriptLengths, h \in Histories}
    \cup {AllVideosCall(vs, h) : vs \in VideoLists, h \in Histories}

RequestEnvs == ConsumerEnvs \cup {Env(Str("key-1"), Str("course-1"))}

RequestBodies == {<<>>, <<65>>}

\* mutation of ApiError: the error says nothing about the response
ApiError_generic(text, statusText) ==
    [isError |-> TRUE, prefix |-> "UIUC Chat API error: ", detail |-> ""]

\* new Error(`UIUC Chat API error: ${errorText || response.statusText}`)
ApiError(text, statusText) ==
    [isError |-> TRUE, prefix |-> "UIUC Chat API error: ",
     detail |-> IF text # "" THEN text ELSE statusText]

\* before fetch resolves there is no response
NoResponse == [status |-> 0, statusText |-> ""]

-----------------------------------------------------------------------------
(* The handler, one action per stretch of code between two awaits.         *)

\* the local state of an invocation that has not been entered
NotEntered ==
    [pc |-> "idle",
     req |-> [method |-> "none", body |-> [valid |-> FALSE, json |-> EmptyObject]],
     body |-> EmptyObject, i |-> 0, lastStatus |-> 0, lastErrorText |-> "",
     calls |-> <<>>, responses |-> <<>>, escaped |-> <<>>, thrown |-> <<>>,
     bodyText |-> "", bodyRead |-> FALSE]

Init ==
    /\ pc = "idle"
    /\ req = [method |-> "none", body |-> [valid |-> FALSE, json |-> EmptyObject]]
    /\ body = EmptyObject
    /\ i = 0
    /\ lastStatus = 0
    /\ lastErrorText = ""
    /\ calls = <<>>
    /\ responses = <<>>
    /\ escaped = <<>>
    /\ thrown = <<>>
    /\ bodyText = ""
    /\ bodyRead = FALSE
    /\ gen = "idle"
    /\ apiKey = Undefined
    /\ chatArgs = NoCall
    /\ fetches = <<>>
    /\ chatResponse = NoResponse
    /\ wire = <<>>
    /\ delivered = <<>>
    /\ decoder = NewDecoder
    /\ fragments = <<>>
    /\ locked = FALSE
    /\ eos = FALSE
    /\ raised = <<>>
    /\ chatErrorText = ""
    /\ activeTab = "search"
    /\ selectedVideo = 0
    /\ messages = <<>>
    /\ input = <<>>
    /\ isStreaming = FALSE
    /\ assistantMessage = EmptyContent
    /\ inFlight = 0
    /\ discarded = [video |-> 0, count |-> 0]
    /\ upstreamBody = <<>>
    /\ suspended = NotEntered
    /\ detached = {}

\* calls with the last one given its answer
Answered(ans) ==
    [calls EXCEPT ![Len(calls)].answer =
        [kind |-> "response", status |-> ans.status, statusText |-> ans.statusText,
         contentType |-> ans.contentType]]

Rejected(exc) ==
    [calls EXCEPT ![Len(calls)].answer = [kind |-> "rejected", exception |-> exc]]

\* mutation of TextRead: the next step does not wait for upstream.text()
TextRead_notAwaited(state) == calls

\* `await upstream.text()` settled for the last call
TextRead(state) == [calls EXCEPT ![Len(calls)].textState = state]

\* the handler is entered: preflight, method check, then `await req.json()`
Invoke(method, inbound) ==
    /\ pc = "idle"
    /\ req' = [method |-> method, body |-> inbound]
    /\ IF IsPreflight(method)
         THEN /\ Settle(Return(PreflightResponse))
              /\ UNCHANGED bodyRead
         ELSE IF method # "POST"
                THEN /\ Settle(Return(MethodNotAllowedResponse))
                     /\ UNCHANGED bodyRead
                ELSE /\ pc' = "json"
                     /\ bodyRead' = TRUE
                     /\ UNCHANGED <<responses, escaped>>
    /\ UNCHANGED <<body, i, lastStatus, lastErrorText, calls, thrown, bodyText>>
    /\ UNCHANGED <<consumerVars, uiVars, upstreamBody, suspended, detached>>

\* req.json() resolves; the POST loop starts and issues its first fetch
JsonResolved ==
    /\ pc = "json"
    /\ req.body.valid
    /\ body' = req.body.json
    /\ lastErrorText' = ""
    /\ lastStatus' = 500
    /\ i' = 1
    /\ calls' = Append(calls, PostRequest(endpoints[1], req.body.json))
    /\ pc' = "postFetch"
    /\ UNCHANGED <<req, responses, escaped, bodyRead, thrown, bodyText>>
    /\ UNCHANGED <<consumerVars, uiVars, upstreamBody, suspended, detached>>

\* req.json() rejects: the outer catch answers
JsonRejected(exc) ==
    /\ pc = "json"
    /\ ~req.body.valid
    /\ Settle(OuterCatch(exc))
    /\ thrown' = Append(thrown, [at |-> "json", exception |-> exc])
    /\ UNCHANGED <<req, body, i, lastStatus, lastErrorText, calls, bodyRead, bodyText>>
    /\ UNCHANGED <<consumerVars, uiVars, upstreamBody, suspended, detached>>

\* a POST fetch resolves: relay it when ok, else note the status and read the text
PostFetchResolved(ans) ==
    /\ pc = "postFetch"
    /\ calls' = Answered(ans)
    /\ IF IsOk(ans.status)
         THEN /\ Settle(Return(RelayResponse(ans, Len(calls))))
              /\ UNCHANGED lastStatus
         ELSE /\ lastStatus' = ans.status
              /\ pc' = "postText"
              /\ UNCHANGED <<responses, escaped>>
    /\ UNCHANGED <<req, body, i, lastErrorText, bodyRead, thrown, bodyText>>
    /\ UNCHANGED <<consumerVars, uiVars, upstreamBody, suspended, detached>>

\* a POST fetch throws: the outer catch answers
PostFetchRejected(exc) ==
    /\ pc = "postFetch"
    /\ calls' = Rejected(exc)
    /\ Settle(OuterCatch(exc))
    /\ thrown' = Append(thrown, [at |-> "postFetch", exception |-> exc])
    /\ UNCHANGED <<req, body, i, lastStatus, lastErrorText, bodyRead, bodyText>>
    /\ UNCHANGED <<consumerVars, uiVars, upstreamBody, suspended, detached>>

\* upstream.text() resolves in the POST loop: continue on 405, break otherwise; when
\* the loop is left (by break or by running out of endpoints) the GET loop starts
PostTextResolved(text) ==
    /\ pc = "postText"
    /\ bodyText' = text
    /\ LET ans == calls[Len(calls)].answer
           read == TextRead("read")
       IN /\ lastErrorText' = ErrorText(text, ans.statusText)
          /\ IF TryNext(ans.status) /\ i < Len(endpoints)
               THEN /\ i' = i + 1
                    /\ calls' = Append(read, PostRequest(endpoints[i + 1], body))
                    /\ pc' = "postFetch"
               ELSE /\ i' = 1
                    /\ calls' = Append(read, GetRequest(endpoints[1], body))
                    /\ pc' = "getFetch"
    /\ UNCHANGED <<req, body, lastStatus, responses, escaped, bodyRead, thrown>>
    /\ UNCHANGED <<consumerVars, uiVars, upstreamBody, suspended, detached>>

\* upstream.text() throws in the POST loop: the outer catch answers
PostTextRejected(exc) ==
    /\ pc = "postText"
    /\ calls' = TextRead("failed")
    /\ Settle(OuterCatch(exc))
    /\ thrown' = Append(thrown, [at |-> "postText", exception |-> exc])
    /\ UNCHANGED <<req, body, i, lastStatus, lastErrorText, bodyRead, bodyText>>
    /\ UNCHANGED <<consumerVars, uiVars, upstreamBody, suspended, detached>>

\* a GET fetch resolves: relay it when ok, else note the status and read the text
GetFetchResolved(ans) ==
    /\ pc = "getFetch"
    /\ calls' = Answered(ans)
    /\ IF IsOk(ans.status)
         THEN /\ Settle(Return(RelayResponse(ans, Len(calls))))
              /\ UNCHANGED lastStatus
         ELSE /\ lastStatus' = ans.status
              /\ pc' = "getText"
              /\ UNCHANGED <<responses, escaped>>
    /\ UNCHANGED <<req, body, i, lastErrorText, bodyRead, thrown, bodyText>>
    /\ UNCHANGED <<consumerVars, uiVars, upstreamBody, suspended, detached>>

\* a GET fetch throws: the inner catch ignores it and the final error answers
GetFetchRejected(exc) ==
    /\ pc = "getFetch"
    /\ calls' = Rejected(exc)
    /\ Settle(Return(UpstreamErrorResponse(lastStatus, lastErrorText)))
    /\ thrown' = Append(thrown, [at |-> "getFetch", exception |-> exc])
    /\ UNCHANGED <<req, body, i, lastStatus, lastErrorText, bodyRead, bodyText>>
    /\ UNCHANGED <<consumerVars, uiVars, upstreamBody, suspended, detached>>

\* upstreamGet.text() resolves: next endpoint on 405, else (or at the end of the
\* list) the final error answers
GetTextResolved(text) ==
    /\ pc = "getText"
    /\ bodyText' = text
    /\ LET ans == calls[Len(calls)].answer
           read == TextRead("read")
           errorText == ErrorText(text, ans.statusText)
       IN /\ lastErrorText' = errorText
          /\ IF TryNext(ans.status) /\ i < Len(endpoints)
               THEN /\ i' = i + 1
                    /\ calls' = Append(read, GetRequest(endpoints[i + 1], body))
                    /\ pc' = "getFetch"
                    /\ UNCHANGED <<responses, escaped>>
               ELSE /\ calls' = read
                    /\ Settle(Return(UpstreamErrorResponse(lastStatus, errorText)))
                    /\ UNCHANGED i
    /\ UNCHANGED <<req, body, lastStatus, bodyRead, thrown>>
    /\ UNCHANGED <<consumerVars, uiVars, upstreamBody, suspended, detached>>

\* upstreamGet.text() throws: the inner catch ignores it and the final error answers
GetTextRejected(exc) ==
    /\ pc = "getText"
    /\ calls' = TextRead("failed")
    /\ Settle(Return(UpstreamErrorResponse(lastStatus, lastErrorText)))
    /\ thrown' = Append(thrown, [at |-> "getText", exception |-> exc])
    /\ UNCHANGED <<req, body, i, lastStatus, lastErrorText, bodyRead, bodyText>>
    /\ UNCHANGED <<consumerVars, uiVars, upstreamBody, suspended, detached>>

Next ==
    \/ \E method \in Methods, inbound \in InboundBodies : Invoke(method, inbound)
    \/ JsonResolved
    \/ \E exc \in ParseErrors : JsonRejected(exc)
    \/ \E ans \in Answers : PostFetchResolved(ans)
    \/ \E exc \in Exceptions : PostFetchRejected(exc)
    \/ \E text \in ErrorBodies : PostTextResolved(text)
    \/ \E exc \in Exceptions : PostTextRejected(exc)
    \/ \E ans \in Answers : GetFetchResolved(ans)
    \/ \E exc \in Exceptions : GetFetchRejected(exc)
    \/ \E text \in ErrorBodies : GetTextResolved(text)
    \/ \E exc \in Exceptions : GetTextRejected(exc)

Spec == Init /\ [][Next]_vars

\* the runtime resumes the handler whenever the promise it awaits settles
FairSpec == Spec /\ WF_vars(Next)

-----------------------------------------------------------------------------
(* The stream consumer, one action per stretch of code between two awaits  *)
(* or yields.                                                              *)

\* a generator is made and started: the key check, then `await fetch('/api/chat', ...)`
StartGenerator(call, env) ==
    /\ apiKey' = env.apiKey
    /\ chatArgs' = call
    /\ IF ~Configured(env.apiKey)
         THEN /\ raised' = Append(raised, NotConfiguredError)
              /\ gen' = "threw"
              /\ UNCHANGED fetches
         ELSE /\ fetches' = Append(fetches, ChatFetch(call, env))
              /\ gen' = "fetch"
              /\ UNCHANGED raised
    /\ UNCHANGED <<chatResponse, wire, delivered, decoder, fragments, locked, eos, chatErrorText>>

\* one call of chatWithVideo or chatWithAllVideos by a caller that is not modelled
Chat(call, env) ==
    /\ gen = "idle"
    /\ StartGenerator(call, env)
    /\ UNCHANGED <<handlerVars, uiVars, upstreamBody, suspended, detached>>

\* fetch resolves: read the error text when not ok, else lock the body to a reader,
\* make the decoder and ask for the first chunk
FetchResolved(ans, bodies) ==
    /\ gen = "fetch"
    /\ chatResponse' = [status |-> ans.status, statusText |-> ans.statusText]
    /\ IF ~IsOk(ans.status)
         THEN /\ gen' = "text"
              /\ UNCHANGED <<wire, decoder, locked>>
         ELSE /\ wire' \in bodies
              /\ locked' = TRUE
              /\ decoder' = NewDecoder
              /\ gen' = "read"
    /\ UNCHANGED <<apiKey, chatArgs, fetches, delivered, fragments, eos, raised, chatErrorText>>

\* the answer of a proxy that is not modelled
ChatFetchResolved(ans, bodies) ==
    /\ FetchResolved(ans, bodies)
    /\ UNCHANGED <<handlerVars, uiVars, upstreamBody, suspended, detached>>

\* fetch throws: the generator throws
ChatFetchRejected(exc) ==
    /\ gen = "fetch"
    /\ raised' = Append(raised, exc)
    /\ gen' = "threw"
    /\ UNCHANGED <<apiKey, chatArgs, fetches, chatResponse, wire, delivered, decoder, fragments, locked, eos, chatErrorText>>
    /\ UNCHANGED <<handlerVars, uiVars, upstreamBody, suspended, detached>>

\* mutation of ChatTextResolved: a response that is not ok makes the client ask again
ChatTextResolved_retry(text) ==
    /\ gen = "text"
    /\ chatErrorText' = text
    /\ fetches' = Append(fetches, fetches[Len(fetches)])
    /\ gen' = "fetch"
    /\ UNCHANGED <<apiKey, chatArgs, chatResponse, wire, delivered, decoder, fragments, locked, eos, raised>>
    /\ UNCHANGED <<handlerVars, uiVars, upstreamBody, suspended, detached>>

\* response.text() resolves for a response that is not ok: throw the API error
ChatTextResolved(text) ==
    /\ gen = "text"
    /\ chatErrorText' = text
    /\ raised' = Append(raised, ApiError(text, chatResponse.statusText))
    /\ gen' = "threw"
    /\ UNCHANGED <<apiKey, chatArgs, fetches, chatResponse, wire, delivered, decoder, fragments, locked, eos>>
    /\ UNCHANGED <<handlerVars, uiVars, upstreamBody, suspended, detached>>

\* response.text() throws: the generator throws what it threw
ChatTextRejected(exc) ==
    /\ gen = "text"
    /\ raised' = Append(raised, exc)
    /\ gen' = "threw"
    /\ UNCHANGED <<apiKey, chatArgs, fetches, chatResponse, wire, delivered, decoder, fragments, locked, eos, chatErrorText>>
    /\ UNCHANGED <<handlerVars, uiVars, upstreamBody, suspended, detached>>

\* reader.read() answers { done: false, value }: the next n bytes of the body; they are
\* decoded, and what came out is yielded unless it is empty
ReadValue(n) ==
    /\ gen = "read"
    /\ n \in 1..Len(wire)
    /\ LET value == SubSeq(wire, 1, n)
           d == DecodeChunk(decoder, value)
       IN /\ wire' = SubSeq(wire, n + 1, Len(wire))
          /\ delivered' = Append(delivered, value)
          /\ decoder' = d.state
          /\ IF Break(FALSE, d.out)
               THEN /\ locked' = FALSE
                    /\ gen' = "returned"
                    /\ UNCHANGED fragments
               ELSE /\ IF Yields(d.out)
                         THEN fragments' = Append(fragments, d.out) /\ gen' = "yield"
                         ELSE UNCHANGED fragments /\ gen' = "read"
                    /\ UNCHANGED locked
    /\ UNCHANGED <<apiKey, chatArgs, fetches, chatResponse, eos, raised, chatErrorText>>
    /\ UNCHANGED <<handlerVars, uiVars, upstreamBody, suspended, detached>>

\* reader.read() answers { done: true } once the body has been delivered: the loop is
\* left, the finally block releases the lock and the generator returns
ReadDone ==
    /\ gen = "read"
    /\ wire = <<>>
    /\ eos' = TRUE
    /\ IF Break(TRUE, <<>>)
         THEN locked' = FALSE /\ gen' = "returned"
         ELSE UNCHANGED <<locked, gen>>
    /\ UNCHANGED <<apiKey, chatArgs, fetches, chatResponse, wire, delivered, decoder, fragments, raised, chatErrorText>>
    /\ UNCHANGED <<handlerVars, uiVars, upstreamBody, suspended, detached>>

\* mutation of ReadRejected: a failed read ends the stream like { done: true }
ReadRejected_asEnd(exc) ==
    /\ gen = "read"
    /\ locked' = FALSE
    /\ gen' = "returned"
    /\ UNCHANGED <<apiKey, chatArgs, fetches, chatResponse, wire, delivered, decoder, fragments, eos, raised, chatErrorText>>
    /\ UNCHANGED <<handlerVars, uiVars, upstreamBody, suspended, detached>>

\* reader.read() rejects (the connection failed): the finally block releases the lock
\* and the error leaves the generator
ReadRejected(exc) ==
    /\ gen = "read"
    /\ locked' = FALSE
    /\ raised' = Append(raised, exc)
    /\ gen' = "threw"
    /\ UNCHANGED <<apiKey, chatArgs, fetches, chatResponse, wire, delivered, decoder, fragments, eos, chatErrorText>>
    /\ UNCHANGED <<handlerVars, uiVars, upstreamBody, suspended, detached>>

\* the caller asks for the next fragment: the generator goes on after its yield
ResumeGenerator ==
    /\ gen = "yield"
    /\ gen' = "read"
    /\ UNCHANGED <<apiKey, chatArgs, fetches, chatResponse, wire, delivered, decoder, fragments, locked, eos, raised, chatErrorText>>

Resume ==
    /\ ResumeGenerator
    /\ UNCHANGED <<handlerVars, uiVars, upstreamBody, suspended, detached>>

ConsumerNext ==
    \/ \E call \in ConsumerCalls, env \in ConsumerEnvs : Chat(call, env)
    \/ \E ans \in Answers : ChatFetchResolved(ans, Bodies)
    \/ \E exc \in Exceptions : ChatFetchRejected(exc)
    \/ \E text \in ErrorBodies : ChatTextResolved(text)
    \/ \E exc \in Exceptions : ChatTextRejected(exc)
    \/ \E n \in 1..MaxBodyLen : ReadValue(n)
    \/ ReadDone
    \/ \E exc \in Exceptions : ReadRejected(exc)
    \/ Resume

ConsumerSpec == Init /\ [][ConsumerNext]_vars

\* the same generator, called with every kind of argument and answered with short bodies
RequestNext ==
    \/ \E call \in RequestCalls, env \in RequestEnvs : Chat(call, env)
    \/ \E ans \in Answers : ChatFetchResolved(ans, RequestBodies)
    \/ \E exc \in Exceptions : ChatFetchRejected(exc)
    \/ \E text \in ErrorBodies : ChatTextResolved(text)
    \/ \E exc \in Exceptions : ChatTextRejected(exc)
    \/ \E n \in 1..MaxBodyLen : ReadValue(n)
    \/ ReadDone
    \/ \E exc \in Exceptions : ReadRejected(exc)
    \/ Resume

RequestSpec == Init /\ [][RequestNext]_vars

-----------------------------------------------------------------------------
(* Reading the log of upstream calls.                                      *)

HasAnswer(k) == calls[k].answer.kind = "response"
Is2xx(k) == HasAnswer(k) /\ calls[k].answer.status \in 200..299
Is405(k) == HasAnswer(k) /\ calls[k].answer.status = 405
IsOtherFailure(k) == HasAnswer(k) /\ calls[k].answer.status \notin 200..299 /\ calls[k].answer.status # 405

\* the candidate walk: every endpoint with POST, then every endpoint with GET
Candidate(j) ==
    IF j <= Len(endpoints)
      THEN [method |-> "POST", url |-> endpoints[j]]
      ELSE [method |-> "GET", url |-> endpoints[j - Len(endpoints)]]

Answering == {k \in 1..Len(calls) : HasAnswer(k)}
TextSeen == {k \in 1..Len(calls) : calls[k].textState = "read"}
Latest(S) == CHOOSE k \in S : \A j \in S : j <= k

\* the status and the error text of the upstream answers seen last
LastSeenStatus == calls[Latest(Answering)].answer.status
LastSeenErrorText ==
    IF bodyText = "" THEN calls[Latest(TextSeen)].answer.statusText ELSE bodyText

ThrownAt(places) == \E n \in 1..Len(thrown) : thrown[n].at \in places
MessageOf(exc) == IF exc.isError THEN exc.message ELSE "Internal server error"

Finished == pc = "done"
OneResponse == Len(responses) = 1

-----------------------------------------------------------------------------
\* C1: once a candidate has answered 2xx no further upstream request is issued and the
\* invocation ends with that answer relayed; a 2xx from the first candidate means exactly
\* one upstream request.
C1_StopsAtFirstSuccess ==
    \A k \in 1..Len(calls) :
        Is2xx(k) =>
            /\ k = Len(calls)
            /\ Finished
            /\ OneResponse
            /\ responses[1].status = calls[k].answer.status
            /\ responses[1].body = [kind |-> "stream", call |-> k]

C1_Witness ==
    /\ Finished
    /\ Len(calls) = 1
    /\ Is2xx(1)
    /\ calls[1].answer.status = 201

\* C2: when the first N candidates of the walk answer 405 and candidate N+1 answers 2xx,
\* exactly N+1 requests were issued, in candidate order, and the caller gets candidate
\* N+1's status, content type and body stream.
C2_SubstitutesNextCandidate ==
    \A n \in 0..(Len(calls) - 1) :
        ((\A j \in 1..n : Is405(j)) /\ Is2xx(n + 1)) =>
            /\ Len(calls) = n + 1
            /\ \A j \in 1..(n + 1) :
                  /\ calls[j].method = Candidate(j).method
                  /\ calls[j].url = Candidate(j).url
            /\ OneResponse
            /\ responses[1].status = calls[n + 1].answer.status
            /\ responses[1].body = [kind |-> "stream", call |-> n + 1]
            /\ responses[1].headers["Content-Type"] \in
                  {<<calls[n + 1].answer.contentType>>, <<"text/event-stream">>}

C2_Witness ==
    /\ Finished
    /\ Len(calls) = 6
    /\ \A j \in 1..5 : Is405(j)
    /\ Is2xx(6)
    /\ calls[6].method = "GET"

\* C3: after a candidate answered with a failure other than 405, no further upstream
\* request is issued.
C3_StopsAtOtherFailure ==
    \A k \in 1..Len(calls) : IsOtherFailure(k) => k = Len(calls)

\* C4: when a candidate answered 400 (and nothing threw), the caller's response has
\* status 400.
C4_Surfaces400 ==
    (Finished /\ thrown = <<>> /\ \E k \in 1..Len(calls) : HasAnswer(k) /\ calls[k].answer.status = 400)
        => (OneResponse /\ responses[1].status = 400)

\* C5: a GET request is issued only after every POST variant was tried and answered 405.
C5_GetOnlyAfterAllPost405 ==
    \A k \in 1..Len(calls) :
        calls[k].method = "GET" =>
            \A j \in 1..Len(endpoints) :
                /\ j < k
                /\ calls[j].method = "POST"
                /\ calls[j].url = endpoints[j]
                /\ Is405(j)

\* the walk is over, no candidate answered 2xx, and nothing cut the POST loop short
WalkEndedWithoutSuccess ==
    /\ Finished
    /\ Len(calls) >= 1
    /\ \A k \in 1..Len(calls) : ~Is2xx(k)
    /\ ~ThrownAt({"json", "postFetch", "postText"})

\* C6: when the walk ends with no 2xx answer (no exception cut the POST loop short),
\* the caller's response has the last-seen upstream status, and its body names that
\* status and the last-seen upstream error text; with 405 from every candidate the
\* status is 405.
C6_SurfacesLastFailure ==
    WalkEndedWithoutSuccess =>
        /\ OneResponse
        /\ responses[1].status = LastSeenStatus
        /\ responses[1].body.kind = "upstreamError"
        /\ responses[1].body.status = LastSeenStatus
        /\ responses[1].body.errorText = LastSeenErrorText

C6_Witness ==
    /\ WalkEndedWithoutSuccess
    /\ Len(calls) = 2 * Len(endpoints)
    /\ \A k \in 1..Len(calls) : Is405(k)
    /\ calls[Len(calls)].textState = "read"
    /\ bodyText = ""
    /\ lastErrorText = "Method Not Allowed"
    /\ responses[1].status = 405

\* C7 as claimed: whenever something threw during a POST invocation, the caller gets
\* status 500 and the exception's message (or the generic string).
C7_AnyException500 ==
    (Finished /\ thrown # <<>>) =>
        /\ OneResponse
        /\ responses[1].status = 500
        /\ responses[1].body = [kind |-> "text", text |-> MessageOf(thrown[1].exception)]

\* C7 as the code has it: an exception while parsing the inbound body or in the POST
\* loop gives status 500 and the exception's message (or the generic string); an
\* exception in the GET loop is ignored and the caller gets the last-seen upstream
\* status and error text.
C7_ExceptionOutcome ==
    (Finished /\ thrown # <<>>) =>
        /\ OneResponse
        /\ Len(thrown) = 1
        /\ IF thrown[1].at \in {"json", "postFetch", "postText"}
             THEN /\ responses[1].status = 500
                  /\ responses[1].body = [kind |-> "text", text |-> MessageOf(thrown[1].exception)]
             ELSE /\ responses[1].status = LastSeenStatus
                  /\ responses[1].body =
                        [kind |-> "upstreamError", prefix |-> "UIUC Chat upstream error",
                         status |-> LastSeenStatus, errorText |-> LastSeenErrorText]

C7_Witness ==
    /\ Finished
    /\ ThrownAt({"getFetch"})
    /\ ~thrown[1].exception.isError
    /\ Len(calls) = Len(endpoints) + 2
    /\ responses[1].status = 405

\* how far the handler has come: every await passed and every fetch issued adds to it
Progress ==
    CASE pc = "idle" -> 0
      [] pc = "json" -> 1
      [] pc \in {"postFetch", "getFetch"} -> 2 * Len(calls)
      [] pc \in {"postText", "getText"} -> 2 * Len(calls) + 1
      [] OTHER -> 4 * Len(endpoints) + 2

\* C8: every invocation ends by returning exactly one response: no exception leaves the
\* handler, nothing is returned twice, the handler is never stuck before it has returned
\* (some step is possible whatever the upstream did so far), and every step moves it
\* forward along a bounded walk, so it cannot run forever.
C8_AlwaysOneResponse ==
    /\ [](/\ escaped = <<>>
          /\ Len(responses) <= 1
          /\ (Finished <=> OneResponse)
          /\ (Finished \/ ENABLED Next)
          /\ Progress <= 4 * Len(endpoints) + 2)
    /\ [][Progress' > Progress]_vars

C8_Witness ==
    /\ Finished
    /\ OneResponse
    /\ ThrownAt({"postText"})
    /\ Len(calls) = 3

\* C9 as claimed: a POST whose body is not JSON gets a 4xx answer and no upstream request.
C9_BadJsonIs4xx ==
    (Finished /\ req.method = "POST" /\ ~req.body.valid) =>
        /\ OneResponse
        /\ responses[1].status \in 400..499
        /\ calls = <<>>

\* C9 as the code has it: a POST whose body is not JSON is answered at once, with no
\* upstream request, with status 500 and the parse error's message as body.
C9_BadJsonIs500 ==
    (Finished /\ req.method = "POST" /\ ~req.body.valid) =>
        /\ OneResponse
        /\ responses[1].status = 500
        /\ Len(thrown) = 1
        /\ thrown[1].at = "json"
        /\ responses[1].body = [kind |-> "text", text |-> thrown[1].exception.message]
        /\ calls = <<>>

C9_Witness ==
    /\ Finished
    /\ req.method = "POST"
    /\ ~req.body.valid
    /\ OneResponse
    /\ thrown # <<>>

\* C10: OPTIONS is answered 204 with no body and CORS headers that allow POST, without
\* any upstream request and without reading the inbound body.
C10_Preflight ==
    (pc # "idle" /\ req.method = "OPTIONS") =>
        /\ Finished
        /\ OneResponse
        /\ responses[1].status = 204
        /\ responses[1].body = [kind |-> "null"]
        /\ {"Access-Control-Allow-Origin", "Access-Control-Allow-Methods"} \subseteq DOMAIN responses[1].headers
        /\ \E n \in DOMAIN responses[1].headers["Access-Control-Allow-Methods"] :
              responses[1].headers["Access-Control-Allow-Methods"][n] = "POST"
        /\ calls = <<>>
        /\ ~bodyRead

C10_Witness ==
    /\ Finished
    /\ req.method = "OPTIONS"
    /\ req.body.valid
    /\ OneResponse

\* C11: a request whose method is neither POST nor OPTIONS is answered 405 at once, and
\* the invocation issues no upstream request.
C11_OtherMethods405 ==
    (pc # "idle" /\ req.method \notin {"POST", "OPTIONS"}) =>
        /\ Finished
        /\ OneResponse
        /\ responses[1].status = 405
        /\ escaped = <<>>
        /\ calls = <<>>

C11_Witness ==
    /\ Finished
    /\ req.method = "PUT"
    /\ OneResponse
    /\ responses[1].status = 405

\* the upstream requests that have no answer yet
InFlight == {k \in 1..Len(calls) : calls[k].answer = Pending}

\* C12: candidate attempts are strictly sequential: at most one upstream request is in
\* flight, and whenever a later request has been issued every earlier one has answered
\* with a status and has had its error body read.
C12_StrictlySequential ==
    /\ Cardinality(InFlight) <= 1
    /\ \A k \in 1..Len(calls) :
          k < Len(calls) => HasAnswer(k) /\ ~Is2xx(k) /\ calls[k].textState = "read"

C12_Witness ==
    /\ Len(calls) = 6
    /\ InFlight = {6}
    /\ calls[5].method = "GET"

\* upstream call k carries header `name` with exactly the value `value`
Carries(k, name, value) ==
    name \in DOMAIN calls[k].headers /\ calls[k].headers[name] = <<value>>

\* C13 as claimed: every upstream request, POST or GET, carries both
\* Content-Type: application/json and Accept: text/event-stream.
C13_AllCarryBoth ==
    \A k \in 1..Len(calls) :
        /\ Carries(k, "Content-Type", "application/json")
        /\ Carries(k, "Accept", "text/event-stream")

\* C13 as the code has it: every upstream request carries Accept: text/event-stream;
\* a POST request also carries Content-Type: application/json, a GET request carries
\* no Content-Type header at all.
C13_ContentNegotiation ==
    \A k \in 1..Len(calls) :
        /\ Carries(k, "Accept", "text/event-stream")
        /\ calls[k].method = "POST" => Carries(k, "Content-Type", "application/json")
        /\ calls[k].method = "GET" => "Content-Type" \notin DOMAIN calls[k].headers

C13_Witness ==
    /\ Len(calls) >= 2
    /\ calls[1].method = "POST"
    /\ calls[Len(calls)].method = "GET"
    /\ "Accept" \in DOMAIN calls[Len(calls)].headers

\* the inbound body has a non-empty string in field f
HasValue(f) ==
    req.body.valid /\ req.body.json[f].type = "string" /\ req.body.json[f].v # ""

ValueOf(f) == req.body.json[f].v

\* C14: every upstream request has Authorization 'Bearer <key>' and x-api-key <key> when
\* the inbound body carries an API key and neither header when it carries none, and has
\* x-course-name (the course name) exactly when the body carries a course name.
C14_AuthHeaders ==
    \A k \in 1..Len(calls) :
        LET h == calls[k].headers
        IN /\ HasValue("api_key") =>
                /\ {"Authorization", "x-api-key"} \subseteq DOMAIN h
                /\ h["Authorization"] = <<"Bearer", ValueOf("api_key")>>
                /\ h["x-api-key"] = <<ValueOf("api_key")>>
           /\ ~HasValue("api_key") => {"Authorization", "x-api-key"} \cap DOMAIN h = {}
           /\ "x-course-name" \in DOMAIN h <=> HasValue("course_name")
           /\ HasValue("course_name") => h["x-course-name"] = <<ValueOf("course_name")>>

C14_Witness ==
    /\ Len(calls) >= 5
    /\ calls[5].method = "GET"
    /\ HasValue("api_key")
    /\ ~HasValue("course_name")
    /\ "x-api-key" \in DOMAIN calls[5].headers

\* the upstream call whose 2xx answer ended the walk
Relayed == CHOOSE k \in 1..Len(calls) : Is2xx(k)

\* C15: on success the caller's response has the upstream's status, the upstream's
\* content-type (text/event-stream when it gave none), Cache-Control: no-cache and
\* Access-Control-Allow-Origin: *; no response of the Proxy has a Connection header.
C15_SuccessHeaders ==
    /\ (Finished /\ \E k \in 1..Len(calls) : Is2xx(k)) =>
          LET up == calls[Relayed].answer
              h == responses[1].headers
          IN /\ OneResponse
             /\ responses[1].status = up.status
             /\ DOMAIN h = {"Content-Type", "Cache-Control", "Access-Control-Allow-Origin"}
             /\ h["Content-Type"] =
                   IF up.contentType = Absent THEN <<"text/event-stream">> ELSE <<up.contentType>>
             /\ h["Cache-Control"] = <<"no-cache">>
             /\ h["Access-Control-Allow-Origin"] = <<"*">>
    /\ \A n \in 1..Len(responses) : "Connection" \notin DOMAIN responses[n].headers

C15_Witness ==
    /\ Finished
    /\ OneResponse
    /\ Len(calls) = 6
    /\ Is2xx(6)
    /\ calls[6].answer.status = 201
    /\ calls[6].answer.contentType = Absent

-----------------------------------------------------------------------------
(* Reading what the stream consumer received and yielded.                  *)

RECURSIVE Concat(_)
Concat(seqs) == IF seqs = <<>> THEN <<>> ELSE Head(seqs) \o Concat(Tail(seqs))

\* the bytes received so far, and the text yielded so far
Received == Concat(delivered)
Output == Concat(fragments)

\* the text of a byte string: what new TextDecoder().decode(bytes) gives
Utf8Decode(bytes) ==
    LET d == DecodeBytes(NewDecoder, bytes)
    IN d.out \o Flush(d.state).out

\* what the consumer yields when the transport delivers the bytes as one chunk
SingleChunkOutput(bytes) ==
    LET d == DecodeChunk(NewDecoder, bytes)
    IN IF Yields(d.out) THEN d.out ELSE <<>>

\* the byte string stops inside a multi-byte character
EndsInsideCharacter(bytes) == DecodeBytes(NewDecoder, bytes).state.needed # 0

Returned == gen = "returned"

\* C16 as claimed: when the generator has returned, the concatenation of its fragments
\* is the decoded text of the chunks it received, taken in arrival order.
C16_OutputIsDecodedText ==
    Returned => Output = Utf8Decode(Received)

\* C17: however the body is cut into chunks, the text yielded so far is what the
\* consumer yields when the bytes received so far come as a single chunk, and a
\* generator that has read to the end has raised no error.
C17_SplitEqualsSingleChunk ==
    /\ Output = SingleChunkOutput(Received)
    /\ Returned => raised = <<>>

C17_Witness ==
    /\ Returned
    /\ delivered = << <<226>>, <<130, 169>> >>
    /\ fragments = << <<8361>> >>

\* C18 as claimed: once the stream has ended the decoder holds no undecoded bytes; when
\* the body stopped inside a character the output ends with the character that the
\* flush of those bytes produces.
C18_FlushesAtEnd ==
    eos =>
        /\ decoder.needed = 0
        /\ EndsInsideCharacter(Received) =>
              Output # <<>> /\ Output[Len(Output)] = ReplacementCharacter

\* C19: the generator returns exactly when the transport has signalled end-of-stream,
\* which it does only after the whole body; a chunk that decodes to nothing does not
\* end it, and nothing is yielded in or after the step that sees end-of-stream.
C19_EndsAtEndOfStream ==
    /\ [](/\ Returned <=> eos
          /\ Returned => wire = <<>>)
    /\ [][eos' => fragments' = fragments]_vars

C19_Witness ==
    /\ Returned
    /\ eos
    /\ Len(delivered) = 3
    /\ delivered[1] = <<195>>
    /\ Len(fragments) = 2

\* the response to the initial request is there and is not 2xx
NotOk == chatResponse # NoResponse /\ ~chatResponse.status \in 200..299

\* C20 as claimed: after a response that is not 2xx the generator throws an error that
\* carries the response's status and its body text, and yields nothing.
C20_ErrorCarriesStatusAndBody ==
    (NotOk /\ gen = "threw") =>
        /\ Len(raised) = 1
        /\ "status" \in DOMAIN raised[1]
        /\ raised[1].status = chatResponse.status
        /\ "detail" \in DOMAIN raised[1]
        /\ raised[1].detail = chatErrorText
        /\ fragments = <<>>

\* C20 as the code has it: after a response that is not 2xx nothing is yielded and no
\* reader is taken; the generator throws either what response.text() threw, or an Error
\* whose message is 'UIUC Chat API error: ' followed by the body text, or by the status
\* text when the body is empty; the error has no status code.
C20_ErrorCarriesText ==
    NotOk =>
        /\ fragments = <<>>
        /\ delivered = <<>>
        /\ ~locked
        /\ gen \in {"text", "threw"}
        /\ gen = "text" => raised = <<>>
        /\ gen = "threw" =>
              /\ Len(raised) = 1
              /\ \/ raised[1] \in Exceptions
                 \/ raised[1] =
                       [isError |-> TRUE, prefix |-> "UIUC Chat API error: ",
                        detail |-> IF chatErrorText # "" THEN chatErrorText
                                   ELSE chatResponse.statusText]
              /\ "status" \notin DOMAIN raised[1]

C20_Witness ==
    /\ gen = "threw"
    /\ chatResponse.status = 500
    /\ chatErrorText = "Invalid JSON"
    /\ Len(raised) = 1
    /\ raised[1] \notin Exceptions

\* the generator has been started without, or with, a usable API key
NoKey == gen # "idle" /\ apiKey \in {Undefined, Str("")}
WithKey == gen # "idle" /\ apiKey \notin {Undefined, Str("")}

\* C21: a call made with no API key configured throws the configuration error at once:
\* no request is ever issued for it and nothing is yielded.
C21_NoKeyNoRequest ==
    NoKey =>
        /\ gen = "threw"
        /\ raised = <<NotConfiguredError>>
        /\ fetches = <<>>
        /\ chatResponse = NoResponse
        /\ fragments = <<>>

C21_Witness ==
    /\ NoKey
    /\ apiKey = Str("")
    /\ gen = "threw"
    /\ fetches = <<>>

\* C30: a call made with an API key configured has issued exactly one request, a POST
\* to /api/chat, from its first step on and whatever became of that request.
C30_ExactlyOneRequest ==
    WithKey =>
        /\ Len(fetches) = 1
        /\ fetches[1].method = "POST"
        /\ fetches[1].url = "/api/chat"

C30_Witness ==
    /\ WithKey
    /\ gen = "threw"
    /\ chatResponse.status = 405
    /\ Len(raised) = 1
    /\ Len(fetches) = 1

\* the first n code units of a string
Prefix(s, n) == IF n = 0 THEN EmptyString ELSE [text |-> s.text, from |-> s.from, len |-> n]

\* the user message of the request the call has issued
SentUserMessage == fetches[1].payload.messages[2].content

VideoCallSent == WithKey /\ chatArgs.fn = "chatWithVideo"

\* C22 as claimed: for every transcript T the excerpt in the request of chatWithVideo is
\* the first min(|T|, 15000) characters of T.
C22_ExcerptIsPrefix ==
    VideoCallSent =>
        SentUserMessage.transcriptExcerpt =
            Prefix(chatArgs.transcript, Min(chatArgs.transcript.len, 15000))

\* C22 as the code has it: for a transcript that is not empty the excerpt is its first
\* min(|T|, 15000) code units; for an empty transcript the excerpt is the text
\* 'No transcript available'.
C22_ExcerptOrPlaceholder ==
    VideoCallSent =>
        LET T == chatArgs.transcript
            excerpt == SentUserMessage.transcriptExcerpt
        IN /\ T.len > 0 => excerpt = Prefix(T, Min(T.len, 15000))
           /\ T.len = 0 => excerpt = Text(<<"No transcript available">>, 23)

C22_Witness ==
    /\ VideoCallSent
    /\ chatArgs.transcript.len = 50000
    /\ SentUserMessage.transcriptExcerpt.len = 15000
    /\ SentUserMessage.transcriptExcerpt.from = 0

\* the contents of the messages of the request, the question inside the user message
\* included
SentContents ==
    {fetches[1].payload.messages[1].content, SentUserMessage.userMessage}

\* C23 as claimed: the request carries every message of the list the call was given,
\* the earlier user and assistant messages as well as the new one.
C23_SendsHistory ==
    WithKey =>
        \A n \in 1..Len(chatArgs.messages) : chatArgs.messages[n].content \in SentContents

\* C23 as the code has it: the request has two messages, the fixed system message and
\* one user message; of the list the call was given only the content of its last
\* message is in it (as the question), nothing when the list is empty.
C23_SendsLastMessageOnly ==
    WithKey =>
        LET sent == fetches[1].payload.messages
            given == chatArgs.messages
        IN /\ Len(sent) = 2
           /\ sent[1] = SystemMessage
           /\ sent[2].role = "user"
           /\ DOMAIN sent[2] = {"role", "content"}
           /\ SentUserMessage.userMessage =
                 IF given = <<>> THEN EmptyContent ELSE given[Len(given)].content
           /\ DOMAIN SentUserMessage \in
                 {{"template", "title", "presenters", "transcriptExcerpt", "userMessage"},
                  {"template", "count", "summariesContext", "userMessage"}}

C23_Witness ==
    /\ WithKey
    /\ Len(chatArgs.messages) = 3
    /\ SentUserMessage.userMessage = Content(<<>>, <<114>>)
    /\ Len(fetches[1].payload.messages) = 2

-----------------------------------------------------------------------------
(* The chat components (ChatWithVideo, ChatWithAll) inside App.  React     *)
(* flushes the updates of a discrete event before the next event is        *)
(* handled, so a handler sees the state its last update left.  App renders *)
(* a chat component only while its tab is active: leaving the tab unmounts *)
(* the component, its state is discarded, and the updates of a turn still  *)
(* running for it have no effect.                                          *)

Tabs == {"search", "chat-video", "chat-all", "presenters"}
ChatTabs == {"chat-video", "chat-all"}

\* videos.filter(v => v.has_transcript): the videos a chat can be about
VideoIds == {1, 2}
ChatVideos == [id \in VideoIds |-> IF id = 2 THEN Video(id, 20000, 0) ELSE Video(id, 40, 10)]
AllVideos == ChatVideos

\* what the user can have in the input field: code units, 32 is a space
Inputs == {<<>>, <<32>>, <<32, 113, 32>>}

Whitespace == {32, 10}

\* String.prototype.trim
RECURSIVE Trim(_)
Trim(s) ==
    IF s = <<>> THEN <<>>
    ELSE IF Head(s) \in Whitespace THEN Trim(Tail(s))
    ELSE IF s[Len(s)] \in Whitespace THEN Trim(SubSeq(s, 1, Len(s) - 1))
    ELSE s

\* mutation of MountedState: the state of the component outlives the component
MountedState_kept(old) == [messages |-> old, input |-> old, isStreaming |-> old]

\* the state a chat component is mounted with: useState([]), useState(''), useState(false)
MountedState(old) == [messages |-> <<>>, input |-> <<>>, isStreaming |-> FALSE]

\* mutation of ReplaceLast: the copy is appended and the placeholder stays
ReplaceLast_append(prev, content) ==
    prev \o <<[role |-> "assistant", content |-> content]>>

\* prev => [...prev.slice(0, -1), { ...assistantMessage }]
ReplaceLast(prev, content) ==
    SubSeq(prev, 1, Len(prev) - 1) \o <<[role |-> "assistant", content |-> content]>>

\* error.message
MessageText(err) ==
    IF "detail" \in DOMAIN err THEN <<err.prefix, err.detail>> ELSE <<err.message>>

\* mutation of ErrorContent: the error text is shown like a reply, without the mark
ErrorContent_unmarked(err) ==
    Content(IF err.isError THEN MessageText(err) ELSE <<"Failed to generate response">>, <<>>)

\* `Error: ${error instanceof Error ? error.message : 'Failed to generate response'}`
ErrorContent(err) ==
    Content(<<"Error: ">> \o (IF err.isError THEN MessageText(err) ELSE <<"Failed to generate response">>),
            <<>>)

\* mutation of Ignored: the input is tested without being trimmed
Ignored_untrimmed(tab, video, inp, streaming) ==
    \/ inp = <<>>
    \/ tab = "chat-video" /\ video = 0
    \/ streaming

\* if (!input.trim() || !selectedVideo || isStreaming) return;   (ChatWithVideo)
\* if (!input.trim() || isStreaming) return;                     (ChatWithAll)
Ignored(tab, video, inp, streaming) ==
    \/ Trim(inp) = <<>>
    \/ tab = "chat-video" /\ video = 0
    \/ streaming

\* the generator call of handleSubmit
SubmitCall(tab, video, history) ==
    IF tab = "chat-video" THEN VideoCall(ChatVideos[video], history)
    ELSE AllVideosCall(AllVideos, history)

\* the generator of a turn is gone once the turn has ended or its component is unmounted
GeneratorGone ==
    /\ gen' = "idle"
    /\ chatArgs' = NoCall
    /\ fetches' = <<>>
    /\ chatResponse' = NoResponse
    /\ wire' = <<>>
    /\ delivered' = <<>>
    /\ decoder' = NewDecoder
    /\ fragments' = <<>>
    /\ locked' = FALSE
    /\ eos' = FALSE
    /\ raised' = <<>>
    /\ chatErrorText' = ""
    /\ UNCHANGED apiKey

\* the messages a reset throws away
Discard ==
    discarded' = IF messages = <<>> THEN discarded
                 ELSE [video |-> selectedVideo, count |-> Len(messages)]

\* a chat component is mounted (or remounted) and the one before it is unmounted
Mount ==
    /\ Discard
    /\ messages' = MountedState(messages).messages
    /\ input' = MountedState(input).input
    /\ isStreaming' = MountedState(isStreaming).isStreaming
    /\ assistantMessage' = EmptyContent
    /\ inFlight' = 0
    /\ GeneratorGone

\* a navigation button: onClick={() => setActiveTab(tab)}
SetActiveTab(tab) ==
    /\ tab # activeTab
    /\ activeTab' = tab
    /\ Mount
    /\ UNCHANGED selectedVideo
    /\ UNCHANGED <<handlerVars, upstreamBody, suspended>>

\* VideoCard's Start Chat: setSelectedVideo(video); setActiveTab('chat-video')
handleStartChat(video) ==
    /\ activeTab = "search"
    /\ selectedVideo' = video
    /\ activeTab' = "chat-video"
    /\ Mount
    /\ UNCHANGED <<handlerVars, upstreamBody, suspended>>

\* the selector ChatWithVideo shows when no video is selected: onVideoSelect(video),
\* then the effect on [selectedVideo] runs setMessages([])
onVideoSelect(video) ==
    /\ activeTab = "chat-video"
    /\ selectedVideo = 0
    /\ selectedVideo' = video
    /\ messages' = <<>>
    /\ Discard
    /\ UNCHANGED <<activeTab, input, isStreaming, assistantMessage, inFlight>>
    /\ UNCHANGED <<handlerVars, consumerVars, upstreamBody, suspended, detached>>

\* onBackToSearch={() => { setSelectedVideo(null); setActiveTab('search'); }}
onBackToSearch ==
    /\ activeTab = "chat-video"
    /\ selectedVideo # 0
    /\ selectedVideo' = 0
    /\ activeTab' = "search"
    /\ Mount
    /\ UNCHANGED <<handlerVars, upstreamBody, suspended>>

\* onChange={(e) => setInput(e.target.value)} of an input with disabled={isStreaming},
\* and the suggestion buttons of ChatWithAll, shown while there are no messages
SetInput(text) ==
    /\ activeTab \in ChatTabs
    /\ activeTab = "chat-video" => selectedVideo # 0
    /\ ~isStreaming
    /\ text # input
    /\ input' = text
    /\ UNCHANGED <<activeTab, selectedVideo, messages, isStreaming, assistantMessage, inFlight, discarded>>
    /\ UNCHANGED <<handlerVars, consumerVars, upstreamBody, suspended, detached>>

\* the number of turns a conversation is followed for
MaxTurns == 2

\* mutation of handleSubmit: the component does not remember that it is streaming
handleSubmit_forgetful(env) ==
    /\ activeTab \in ChatTabs
    /\ Len(messages) < 2 * MaxTurns
    /\ IF Ignored(activeTab, selectedVideo, input, isStreaming)
         THEN UNCHANGED <<consumerVars, uiVars, upstreamBody, suspended, detached>>
         ELSE LET userMessage == UserSays(Trim(input)) IN
              /\ messages' = messages \o <<userMessage, AssistantSays(<<>>)>>
              /\ input' = <<>>
              /\ isStreaming' = FALSE
              /\ assistantMessage' = EmptyContent
              /\ inFlight' = inFlight + 1
              /\ StartGenerator(SubmitCall(activeTab, selectedVideo, messages \o <<userMessage>>), env)
              /\ UNCHANGED <<activeTab, selectedVideo, discarded>>
    /\ UNCHANGED <<handlerVars, upstreamBody, suspended, detached>>

\* handleSubmit up to its first await: the guard, the two messages, and the generator
\* started by the first next() of `for await`
handleSubmit(env) ==
    /\ activeTab \in ChatTabs
    /\ Len(messages) < 2 * MaxTurns
    /\ IF Ignored(activeTab, selectedVideo, input, isStreaming)
         THEN UNCHANGED <<consumerVars, uiVars, upstreamBody, suspended, detached>>
         ELSE LET userMessage == UserSays(Trim(input)) IN
              /\ messages' = messages \o <<userMessage, AssistantSays(<<>>)>>
              /\ input' = <<>>
              /\ isStreaming' = TRUE
              /\ assistantMessage' = EmptyContent
              /\ inFlight' = inFlight + 1
              /\ StartGenerator(SubmitCall(activeTab, selectedVideo, messages \o <<userMessage>>), env)
              /\ UNCHANGED <<activeTab, selectedVideo, discarded>>
    /\ UNCHANGED <<handlerVars, upstreamBody, suspended, detached>>

\* the body of `for await`: assistantMessage.content += chunk; the placeholder is
\* replaced by a copy; the loop asks for the next fragment
ChunkReceived ==
    /\ inFlight > 0
    /\ gen = "yield"
    /\ assistantMessage' = Content(assistantMessage.literal,
                                   assistantMessage.chars \o fragments[Len(fragments)])
    /\ messages' = ReplaceLast(messages, assistantMessage')
    /\ ResumeGenerator
    /\ UNCHANGED <<activeTab, selectedVideo, input, isStreaming, inFlight, discarded>>
    /\ UNCHANGED <<handlerVars, upstreamBody, suspended, detached>>

\* the generator returned: the loop ends, finally { setIsStreaming(false) }
TurnCompleted ==
    /\ inFlight > 0
    /\ gen = "returned"
    /\ isStreaming' = FALSE
    /\ inFlight' = inFlight - 1
    /\ GeneratorGone
    /\ UNCHANGED <<activeTab, selectedVideo, messages, input, assistantMessage, discarded>>
    /\ UNCHANGED <<handlerVars, upstreamBody, suspended, detached>>

\* the generator threw: catch replaces the placeholder's content by the error text,
\* finally { setIsStreaming(false) }
TurnFailed ==
    /\ inFlight > 0
    /\ gen = "threw"
    /\ assistantMessage' = ErrorContent(raised[Len(raised)])
    /\ messages' = ReplaceLast(messages, assistantMessage')
    /\ isStreaming' = FALSE
    /\ inFlight' = inFlight - 1
    /\ GeneratorGone
    /\ UNCHANGED <<activeTab, selectedVideo, input, discarded>>
    /\ UNCHANGED <<handlerVars, upstreamBody, suspended, detached>>

\* answers and bodies of the proxy as the components meet them
UiAnswers ==
    {[status |-> 200, statusText |-> "OK", contentType |-> Absent],
     [status |-> 500, statusText |-> "", contentType |-> "text/plain"],
     [status |-> 405, statusText |-> ReasonPhrase(405), contentType |-> "text/plain"]}

UiBodies == {<<>>, <<65>>, <<65, 195, 169>>}

UiErrorBodies == {"", ErrorBodyNames[1]}

UiEnvs == {Env(Undefined, Undefined), Env(Str("key-1"), Undefined)}

UiNext ==
    \/ \E tab \in Tabs : SetActiveTab(tab) /\ UNCHANGED detached
    \/ \E video \in VideoIds : handleStartChat(video) /\ UNCHANGED detached
    \/ \E video \in VideoIds : onVideoSelect(video)
    \/ onBackToSearch /\ UNCHANGED detached
    \/ \E text \in Inputs : SetInput(text)
    \/ \E env \in UiEnvs : handleSubmit(env)
    \/ ChunkReceived
    \/ TurnCompleted
    \/ TurnFailed
    \/ \E ans \in UiAnswers : ChatFetchResolved(ans, UiBodies)
    \/ \E exc \in Exceptions : ChatFetchRejected(exc)
    \/ \E text \in UiErrorBodies : ChatTextResolved(text)
    \/ \E exc \in Exceptions : ChatTextRejected(exc)
    \/ \E n \in 1..MaxBodyLen : ReadValue(n)
    \/ ReadDone
    \/ \E exc \in Exceptions : ReadRejected(exc)

UiSpec == Init /\ [][UiNext]_vars


-----------------------------------------------------------------------------
(* The conversation turn.                                                  *)

\* a stream is started: the generator function is called with new arguments
StreamStarts == chatArgs' # chatArgs /\ chatArgs' # NoCall

\* C24: at most one conversation turn is in flight per conversation at any time: under
\* every interleaving of submits and stream events handleSubmit starts a stream only
\* when no turn of the conversation is in flight and no stream is being consumed.
C24_OneTurnInFlight ==
    /\ [](inFlight <= 1)
    /\ [][StreamStarts => inFlight = 0 /\ gen = "idle" /\ inFlight' = 1]_vars

\* the second turn of a conversation is streaming, alone
C24_Witness ==
    /\ Len(messages) = 4
    /\ inFlight = 1
    /\ gen = "yield"
    /\ isStreaming


\* a step of the mounted conversation that changes its message list
ConversationStep ==
    /\ activeTab' = activeTab
    /\ selectedVideo' = selectedVideo
    /\ messages' # messages

\* the placeholder is the last message; everything before it is as it was
PlaceholderUpdated ==
    /\ messages # <<>>
    /\ Len(messages') = Len(messages)
    /\ SubSeq(messages', 1, Len(messages) - 1) = SubSeq(messages, 1, Len(messages) - 1)
    /\ messages'[Len(messages)].role = "assistant"

\* the turn starts: the user's message, then an empty assistant placeholder
TurnAppends ==
    /\ inFlight = 0
    /\ inFlight' = 1
    /\ messages' = messages \o <<UserSays(Trim(input)), AssistantSays(<<>>)>>

\* the placeholder's content is its previous content followed by the new fragment
PlaceholderGrows ==
    /\ inFlight = 1
    /\ gen = "yield"
    /\ PlaceholderUpdated
    /\ messages'[Len(messages)].content =
           Content(messages[Len(messages)].content.literal,
                   messages[Len(messages)].content.chars \o fragments[Len(fragments)])

\* the placeholder's content is replaced by the text of the error
PlaceholderShowsError ==
    /\ inFlight = 1
    /\ gen = "threw"
    /\ PlaceholderUpdated
    /\ messages'[Len(messages)].content.literal[1] = "Error: "
    /\ messages'[Len(messages)].content.chars = <<>>

\* C25 as claimed: during a turn the conversation is mutated only by appending the
\* user's message and a placeholder, and every later update extends the placeholder's
\* content by the newly received fragment.
C25_PlaceholderOnlyGrows ==
    [][ConversationStep => TurnAppends \/ PlaceholderGrows]_vars

\* C25, amended: during a turn the conversation is mutated only by appending the user's
\* message and an empty assistant placeholder, by extending the placeholder's content
\* with the newly received fragment, or, when the turn fails, by replacing the
\* placeholder's content with the error text; the messages before the placeholder are
\* left unchanged.
C25_PlaceholderGrowsOrShowsError ==
    [][ConversationStep => TurnAppends \/ PlaceholderGrows \/ PlaceholderShowsError]_vars

\* a placeholder that has grown by two fragments, after an earlier turn
C25_Witness ==
    /\ Len(messages) = 4
    /\ inFlight = 1
    /\ Len(fragments) = 2
    /\ gen = "read"
    /\ messages[4].content.chars = fragments[1] \o fragments[2]

-----------------------------------------------------------------------------
(* The subject of the conversation.                                        *)

\* C26: whenever the selected video changes, the conversation state of ChatWithVideo is
\* reset: its message list becomes empty, and no turn of the old conversation is left
\* in flight for the new one.
C26_VideoChangeResets ==
    [][selectedVideo' # selectedVideo => messages' = <<>> /\ inFlight' = 0 /\ ~isStreaming']_vars

\* the user talked about video 1 and now has video 2 selected, with an empty conversation
C26_Witness ==
    /\ activeTab = "chat-video"
    /\ selectedVideo = 2
    /\ discarded = [video |-> 1, count |-> 2]
    /\ messages = <<>>

-----------------------------------------------------------------------------
(* A turn that fails.                                                      *)

\* the step in which handleSubmit handles what the generator threw
FailureHandled ==
    /\ inFlight = 1
    /\ gen = "threw"
    /\ inFlight' = 0
    /\ activeTab' = activeTab

\* C27: after a turn fails (missing API key, non-2xx answer from the proxy, or an error
\* while reading the stream), the last message of the conversation is an assistant message
\* that shows 'Error: ' followed by the message of the error, in place of the reply; no
\* message is added or lost, and isStreaming is false, so a new message can be submitted.
C27_FailureShown ==
    /\ [][FailureHandled =>
            LET err == raised[Len(raised)]
                shown == messages'[Len(messages')]
            IN  /\ Len(messages') = Len(messages)
                /\ shown.role = "assistant"
                /\ Head(shown.content.literal) = "Error: "
                /\ err.isError => Tail(shown.content.literal) = MessageText(err)
                /\ shown.content.chars = <<>>
                /\ ~isStreaming'
                /\ ~Ignored(activeTab', selectedVideo', <<113>>, isStreaming')]_vars
    /\ [](gen = "threw" /\ inFlight = 1 => ENABLED TurnFailed)

\* the proxy answered 500 with a body: the conversation shows the error and is idle
C27_Witness ==
    /\ Len(messages) = 2
    /\ messages[2].content.literal = <<"Error: ", "UIUC Chat API error: ", ErrorBodyNames[1]>>
    /\ ~isStreaming
    /\ inFlight = 0

-----------------------------------------------------------------------------
(* A connection that drops while the stream is read.                       *)

\* the step in which reader.read() fails: the reader is released though the stream
\* has not said { done: true }
ConnectionDrops ==
    /\ gen = "read"
    /\ locked
    /\ ~locked'
    /\ ~eos'
    /\ gen' # "idle"

\* the step in which handleSubmit ends a turn whose stream had begun
StreamedTurnEnds ==
    /\ inFlight = 1
    /\ IsOk(chatResponse.status)
    /\ inFlight' = 0
    /\ activeTab' = activeTab

\* C28 as claimed: a connection that drops while the stream is consumed is treated as
\* end-of-stream: the reader is released, the fragment sequence ends without an error
\* raised to the caller, and the reply received so far stays as it is.
C28_DropIsEndOfStream ==
    /\ [][ConnectionDrops => gen' = "returned" /\ raised' = raised]_vars
    /\ [][StreamedTurnEnds => messages' = messages]_vars

\* C28, amended: when the connection drops while the stream is consumed, the generator
\* releases the reader and ends its fragment sequence by throwing the read error to its
\* caller; handleSubmit catches it, replaces the reply received so far by 'Error: ' and
\* the error text, and ends the turn.
C28_DropIsThrown ==
    /\ [][ConnectionDrops =>
            /\ gen' = "threw"
            /\ Len(raised') = Len(raised) + 1
            /\ raised'[Len(raised')] \in Exceptions
            /\ fragments' = fragments]_vars
    /\ [][StreamedTurnEnds /\ gen = "threw" =>
            /\ messages'[Len(messages')].content = ErrorContent(raised[Len(raised)])
            /\ ~isStreaming']_vars
    /\ [](gen = "threw" /\ inFlight = 1 => ~locked /\ ENABLED TurnFailed)

\* the reply shows one fragment, the read has failed, and the reader is released
C28_Witness ==
    /\ gen = "threw"
    /\ IsOk(chatResponse.status)
    /\ ~locked
    /\ ~eos
    /\ inFlight = 1
    /\ messages[Len(messages)].content.chars = <<65>>
    /\ raised[1] \in Exceptions


-----------------------------------------------------------------------------
(* End to end: one call of the stream consumer whose request is handled by *)
(* the proxy, whose candidate walk is answered by the upstream, and whose  *)
(* response comes back to the consumer.                                    *)

\* JSON.stringify(payload) on the client, then req.json() in the handler
ParsedJson(payload) ==
    [model |-> Str(payload.model),
     messages |-> Arr(payload.messages),
     api_key |-> Str(payload.api_key),
     course_name |-> Str(payload.course_name),
     stream |-> Bool(IF payload.stream THEN "true" ELSE "false"),
     temperature |-> Num(payload.temperature),
     retrieval_only |-> Bool(IF payload.retrieval_only THEN "true" ELSE "false")]

\* the body of the client's request as the handler can read it
Inbound(fetch) == [valid |-> TRUE, json |-> ParsedJson(fetch.payload)]

\* response.text() of a response of the proxy that is not a relay; of the upstream
\* error text only its fixed beginning is kept
ResponseText(responseBody) ==
    IF responseBody.kind = "text" THEN responseBody.text
    ELSE IF responseBody.kind = "upstreamError" THEN responseBody.prefix
    ELSE ""

\* the bytes of a text on the wire: UTF-8, the encoding `new TextDecoder()` reads
RECURSIVE Utf8Encode(_)
Utf8Encode(text) ==
    IF text = <<>> THEN <<>>
    ELSE LET cp == Head(text)
             bytes == IF cp < 128 THEN <<cp>>
                      ELSE IF cp < 2048 THEN <<192 + (cp \div 64), 128 + (cp % 64)>>
                      ELSE <<224 + (cp \div 4096), 128 + ((cp \div 64) % 64), 128 + (cp % 64)>>
         IN bytes \o Utf8Encode(Tail(text))

\* mutation of Piped: the relay passes on the body without its last byte
Piped_truncated(bytes) == SubSeq(bytes, 1, Len(bytes) - 1)

\* new Response(upstream.body, ...): the client reads the stream of the upstream answer
Piped(bytes) == bytes

\* the client's request reaches the proxy: the handler is invoked with it
RequestArrives ==
    /\ gen = "fetch"
    /\ Invoke(fetches[Len(fetches)].method, Inbound(fetches[Len(fetches)]))

\* the proxy's Response reaches the client: fetch resolves with its status, and when it
\* is a relay the body is the stream of the upstream call
ProxyAnswers(texts) ==
    /\ pc = "done"
    /\ responses # <<>>
    /\ LET response == responses[Len(responses)]
       IN IF response.body.kind = "stream"
            THEN /\ upstreamBody' \in texts
                 /\ FetchResolved([status |-> response.status, statusText |-> ""],
                                  {Piped(Utf8Encode(upstreamBody'))})
            ELSE /\ FetchResolved([status |-> response.status, statusText |-> ""], {<<>>})
                 /\ UNCHANGED upstreamBody
    /\ UNCHANGED <<handlerVars, uiVars, suspended, detached>>

\* response.text() of the proxy's error response resolves
ProxyTextRead ==
    /\ gen = "text"
    /\ ChatTextResolved(ResponseText(responses[Len(responses)].body))

\* upstream answers and bodies followed end to end
EndToEndAnswers ==
    {[status |-> 200, statusText |-> "OK", contentType |-> Absent],
     [status |-> 201, statusText |-> "OK", contentType |-> "application/json"],
     [status |-> 405, statusText |-> ReasonPhrase(405), contentType |-> "text/plain"],
     [status |-> 500, statusText |-> "", contentType |-> "text/plain"]}

\* texts as code points: 'A', 'hi', and texts with characters of two and three bytes
EndToEndTexts == {<<>>, <<65>>, <<104, 105>>, <<233>>, <<65, 233>>, <<8364>>, <<8364, 65>>}

EndToEndCalls == {VideoCall(Video(1, 40, 10), <<UserSays(<<113>>)>>)}

EndToEndEnvs == {Env(Str("key-1"), Undefined)}

EndToEndNext ==
    \/ \E call \in EndToEndCalls, env \in EndToEndEnvs : Chat(call, env)
    \/ RequestArrives
    \/ JsonResolved
    \/ \E ans \in EndToEndAnswers : PostFetchResolved(ans)
    \/ \E exc \in Exceptions : PostFetchRejected(exc)
    \/ \E text \in ErrorBodies : PostTextResolved(text)
    \/ \E exc \in Exceptions : PostTextRejected(exc)
    \/ \E ans \in EndToEndAnswers : GetFetchResolved(ans)
    \/ \E exc \in Exceptions : GetFetchRejected(exc)
    \/ \E text \in ErrorBodies : GetTextResolved(text)
    \/ \E exc \in Exceptions : GetTextRejected(exc)
    \/ ProxyAnswers(EndToEndTexts)
    \/ \E exc \in Exceptions : ChatFetchRejected(exc)
    \/ ProxyTextRead
    \/ \E exc \in Exceptions : ChatTextRejected(exc)
    \/ \E n \in 1..MaxBodyLen : ReadValue(n)
    \/ ReadDone
    \/ \E exc \in Exceptions : ReadRejected(exc)
    \/ Resume

EndToEndSpec == Init /\ [][EndToEndNext]_vars

\* the candidate that answered 2xx after nothing but 405 answers, if there is one
OnlyRefusedBefore(k) == \A j \in 1..(k - 1) : Is405(j)
ReachedAfterRefusals(k) == k \in 1..Len(calls) /\ Is2xx(k) /\ OnlyRefusedBefore(k)

\* the proxy has answered with the stream of call k and the status of its answer
RelaysCall(k) ==
    /\ pc = "done"
    /\ Len(responses) = 1
    /\ responses[1].body = [kind |-> "stream", call |-> k]
    /\ responses[1].status = calls[k].answer.status
    /\ Len(calls) = k

\* the consumer has received the bytes of the upstream body, all of them, and returned
ConsumedUpstreamBody ==
    /\ Returned
    /\ IsOk(chatResponse.status)
    /\ Received = Utf8Encode(upstreamBody)

-----------------------------------------------------------------------------
(* The context of the multi-video chat.                                    *)

AllVideosCallSent == WithKey /\ chatArgs.fn = "chatWithAllVideos"

\* the texts the transcript fields of the videos are stretches of
TranscriptTexts(videos) == {videos[k].transcript.text : k \in DOMAIN videos}

\* C31: for every list of videos, the request built by chatWithAllVideos contains no
\* text taken from any video's transcript field: each video contributes its title, its
\* presenters and its summary (or the placeholder), and nothing else is interpolated.
C31_OnlySummaries ==
    AllVideosCallSent =>
        /\ DOMAIN SentUserMessage = {"template", "count", "summariesContext", "userMessage"}
        /\ SentUserMessage.userMessage = LastUserMessage(chatArgs.messages)
        /\ \A k \in DOMAIN SentUserMessage.summariesContext :
              LET entry == SentUserMessage.summariesContext[k]
              IN  /\ DOMAIN entry = {"title", "presenterNames", "summary"}
                  /\ entry.summary.text \notin TranscriptTexts(chatArgs.videos)
                  /\ entry.summary \in {chatArgs.videos[k].ai_summary, NoSummary}

\* a video with a transcript and no summary is sent with the placeholder
C31_Witness ==
    /\ AllVideosCallSent
    /\ Len(chatArgs.videos) = 2
    /\ chatArgs.videos[2].transcript.len > 0
    /\ chatArgs.videos[2].ai_summary.len = 0
    /\ SentUserMessage.summariesContext[2].summary = NoSummary


\* C32 as claimed: for every list of videos, however long, the request built by
\* chatWithAllVideos contains the summaries of at most 10 videos.
C32_AtMostTenSummaries ==
    AllVideosCallSent => Len(SentUserMessage.summariesContext) <= SummaryLimit

\* what the code does: every video of the list has its entry, in list order
C32_EveryVideoIsSent ==
    AllVideosCallSent =>
        /\ Len(SentUserMessage.summariesContext) = Len(chatArgs.videos)
        /\ SentUserMessage.count = Len(chatArgs.videos)
        /\ \A k \in DOMAIN chatArgs.videos :
              SentUserMessage.summariesContext[k].title = chatArgs.videos[k].title


-----------------------------------------------------------------------------
(* Two invocations of the handler at once.  Everything the handler writes  *)
(* is declared inside it (body, endpoints, lastErrorText, lastStatus, the  *)
(* loop variables), so an invocation that is waiting at an await keeps its *)
(* own copy of all of it while the other one runs.                         *)

\* the local state of the running invocation
Running ==
    [pc |-> pc, req |-> req, body |-> body, i |-> i, lastStatus |-> lastStatus,
     lastErrorText |-> lastErrorText, calls |-> calls, responses |-> responses,
     escaped |-> escaped, thrown |-> thrown, bodyText |-> bodyText, bodyRead |-> bodyRead]

\* mutation of Switch: lastStatus and lastErrorText are module variables, one copy for
\* both invocations
Switch_sharedLast ==
    /\ suspended # Running
    /\ suspended' = [Running EXCEPT !.lastStatus = suspended.lastStatus,
                                    !.lastErrorText = suspended.lastErrorText]
    /\ pc' = suspended.pc
    /\ req' = suspended.req
    /\ body' = suspended.body
    /\ i' = suspended.i
    /\ calls' = suspended.calls
    /\ responses' = suspended.responses
    /\ escaped' = suspended.escaped
    /\ thrown' = suspended.thrown
    /\ bodyText' = suspended.bodyText
    /\ bodyRead' = suspended.bodyRead
    /\ UNCHANGED <<lastStatus, lastErrorText>>
    /\ UNCHANGED <<consumerVars, uiVars, upstreamBody, detached>>

\* the runtime goes from one invocation to the other: the running one waits at its
\* await (or has not been entered, or is done) and the other one goes on
Switch ==
    /\ suspended # Running
    /\ suspended' = Running
    /\ pc' = suspended.pc
    /\ req' = suspended.req
    /\ body' = suspended.body
    /\ i' = suspended.i
    /\ lastStatus' = suspended.lastStatus
    /\ lastErrorText' = suspended.lastErrorText
    /\ calls' = suspended.calls
    /\ responses' = suspended.responses
    /\ escaped' = suspended.escaped
    /\ thrown' = suspended.thrown
    /\ bodyText' = suspended.bodyText
    /\ bodyRead' = suspended.bodyRead
    /\ UNCHANGED <<consumerVars, uiVars, upstreamBody, detached>>

\* requests and upstream answers of the two invocations
ConcurrentBodies ==
    {[valid |-> FALSE, json |-> EmptyObject], [valid |-> TRUE, json |-> FullChatRequest]}

ConcurrentAnswers ==
    {[status |-> 200, statusText |-> "OK", contentType |-> Absent],
     [status |-> 405, statusText |-> ReasonPhrase(405), contentType |-> "text/plain"],
     [status |-> 500, statusText |-> "", contentType |-> "text/plain"]}

ConcurrentErrorBodies == {"", ErrorBodyNames[1]}

ConcurrentExceptions == {[isError |-> TRUE, message |-> "fetch failed"]}

ConcurrentNext ==
    \/ \E method \in {"POST", "GET"}, inbound \in ConcurrentBodies : Invoke(method, inbound)
    \/ JsonResolved
    \/ \E exc \in ParseErrors : JsonRejected(exc)
    \/ \E ans \in ConcurrentAnswers : PostFetchResolved(ans)
    \/ \E exc \in ConcurrentExceptions : PostFetchRejected(exc)
    \/ \E text \in ConcurrentErrorBodies : PostTextResolved(text)
    \/ \E exc \in ConcurrentExceptions : PostTextRejected(exc)
    \/ \E ans \in ConcurrentAnswers : GetFetchResolved(ans)
    \/ \E exc \in ConcurrentExceptions : GetFetchRejected(exc)
    \/ \E text \in ConcurrentErrorBodies : GetTextResolved(text)
    \/ \E exc \in ConcurrentExceptions : GetTextRejected(exc)
    \/ Switch

ConcurrentSpec == Init /\ [][ConcurrentNext]_vars

\* what an invocation answers, read from its own request and from the log of the
\* answers to its own upstream requests
OwnOutcome ==
    IF req.method = "OPTIONS" THEN PreflightResponse
    ELSE IF req.method # "POST" THEN MethodNotAllowedResponse
    ELSE IF \E k \in 1..Len(calls) : Is2xx(k)
      THEN LET k == CHOOSE k \in 1..Len(calls) : Is2xx(k)
           IN RelayResponse(calls[k].answer, k)
    ELSE IF ThrownAt({"json", "postFetch", "postText"})
      THEN [status |-> 500,
            body |-> [kind |-> "text", text |-> MessageOf(thrown[1].exception)],
            headers |-> <<>>]
    ELSE [status |-> LastSeenStatus,
          body |-> [kind |-> "upstreamError", prefix |-> "UIUC Chat upstream error",
                    status |-> LastSeenStatus, errorText |-> LastSeenErrorText],
          headers |-> <<>>]

\* C33: under every interleaving of two invocations, the response of each is determined
\* solely by its own request and by the upstream answers to its own requests, and what
\* one invocation does leaves the waiting one as it was.
C33_NoSharedState ==
    /\ [](Finished => responses = <<OwnOutcome>> /\ escaped = <<>>)
    /\ [][suspended' \in {suspended, Running}]_vars

\* one invocation has answered with the status of its own walk while the other one
\* waits in the middle of a different walk
C33_Witness ==
    /\ Finished
    /\ Len(calls) = 8
    /\ responses[1].status = 405
    /\ suspended.pc = "postText"
    /\ suspended.lastStatus = 500
    /\ Len(suspended.calls) = 2


\* the text a chat function was given as context: stretches of the transcript of the
\* video, or of the summaries of the videos
ContextTexts ==
    {chatArgs.transcript.text} \cup
    {chatArgs.videos[k].ai_summary.text : k \in DOMAIN chatArgs.videos}

\* C34: in every chat request the system message is the fixed instruction, with nothing
\* of the call interpolated into it, and the user message carries the context (the
\* transcript excerpt, or one summary entry per video) together with the question.
C34_ContextInUserMessage ==
    WithKey =>
        LET sent == fetches[1].payload.messages
        IN /\ sent[1].role = "system"
           /\ DOMAIN sent[1].content = {"literal", "chars"}
           /\ sent[1].content.chars = <<>>
           /\ sent[1].content.literal =
                 <<"You are a helpful AI assistant. Answer questions based ONLY on the information provided. Do not add document citations.">>
           /\ sent[2].role = "user"
           /\ "userMessage" \in DOMAIN sent[2].content
           /\ sent[2].content.userMessage = LastUserMessage(chatArgs.messages)
           /\ chatArgs.fn = "chatWithVideo" =>
                 /\ "transcriptExcerpt" \in DOMAIN sent[2].content
                 /\ chatArgs.transcript.len > 0 =>
                       sent[2].content.transcriptExcerpt.text \in ContextTexts
           /\ chatArgs.fn = "chatWithAllVideos" =>
                 /\ "summariesContext" \in DOMAIN sent[2].content
                 /\ \A k \in DOMAIN chatArgs.videos :
                       chatArgs.videos[k].ai_summary.len > 0 =>
                           sent[2].content.summariesContext[k].summary.text \in ContextTexts

C34_Witness ==
    /\ WithKey
    /\ chatArgs.fn = "chatWithVideo"
    /\ chatArgs.transcript.len = 14999
    /\ chatArgs.messages # <<>>
    /\ fetches[1].payload.messages[2].content.transcriptExcerpt = chatArgs.transcript
    /\ fetches[1].payload.messages[2].content.userMessage # EmptyContent
    /\ fetches[1].payload.messages[1] = SystemMessage


-----------------------------------------------------------------------------
(* The query string of the GET attempts.                                   *)

GetCalls == {k \in 1..Len(calls) : calls[k].method = "GET"}

QueryFields == {"model", "messages", "course_name", "stream", "temperature", "retrieval_only"}

\* the values the query of call k has for parameter f
ParamValues(k, f) ==
    {calls[k].query[n][2] : n \in {m \in DOMAIN calls[k].query : calls[k].query[m][1] = f}}

InBody(f) == body[f].type # "undefined"

\* C35 as claimed: each of model, messages, course_name, stream, temperature and
\* retrieval_only is in the query of a GET attempt whenever it is in the inbound body.
C35_PresentWheneverInBody ==
    \A k \in GetCalls : \A f \in QueryFields : InBody(f) => ParamValues(k, f) # {}

\* C35 as the code has it: the query of a GET attempt has parameters of these six names
\* only, each at most once; model and course_name are there when the body has them with
\* a truthy value, as String(value); messages is there when the body has an array, the
\* whole array serialized into that one parameter; stream, temperature and
\* retrieval_only are there when the body has them at all, stream and retrieval_only
\* as 'true' or 'false' after the truthiness of the value, temperature as String(value).
C35_QueryFromBody ==
    \A k \in GetCalls :
        /\ \A n \in DOMAIN calls[k].query : calls[k].query[n][1] \in QueryFields
        /\ \A n, m \in DOMAIN calls[k].query :
              calls[k].query[n][1] = calls[k].query[m][1] => n = m
        /\ \A f \in {"model", "course_name"} :
              ParamValues(k, f) = IF Truthy(body[f]) THEN {body[f].v} ELSE {}
        /\ ParamValues(k, "messages") =
              IF body["messages"].type = "array" THEN {body["messages"].v} ELSE {}
        /\ \A f \in {"stream", "retrieval_only"} :
              ParamValues(k, f) =
                 IF ~InBody(f) THEN {} ELSE IF Truthy(body[f]) THEN {"true"} ELSE {"false"}
        /\ ParamValues(k, "temperature") =
              IF InBody("temperature") THEN {body["temperature"].v} ELSE {}

\* a GET attempt for a body that has all six fields, two of them dropped from the query
\* and the string 'false' sent as stream=true
C35_Witness ==
    /\ GetCalls # {}
    /\ body = OddChatRequest
    /\ \A k \in GetCalls :
          /\ ParamValues(k, "model") = {}
          /\ ParamValues(k, "messages") = {}
          /\ ParamValues(k, "stream") = {"true"}
          /\ ParamValues(k, "temperature") = {"0"}
          /\ Len(calls[k].query) = 4


\* the names and the values of the query parameters of call k
ParamNames(k) == {calls[k].query[n][1] : n \in DOMAIN calls[k].query}
AllParamValues(k) == {calls[k].query[n][2] : n \in DOMAIN calls[k].query}

\* C36: the API key is in the URL of no upstream request. A POST attempt has no query;
\* the query of a GET attempt has no api_key parameter and no parameter whose value is
\* the key, and its URL is the candidate itself. The key is in the headers of every
\* attempt and in the JSON body of the POST attempts.
C36_KeyNotInUrl ==
    \A k \in 1..Len(calls) :
        /\ calls[k].url \in {endpoints[n] : n \in DOMAIN endpoints}
        /\ "api_key" \notin ParamNames(k)
        /\ calls[k].method = "POST" => calls[k].query = <<>> /\ ~calls[k].hasQuery
        /\ HasValue("api_key") =>
              /\ ValueOf("api_key") \notin AllParamValues(k)
              /\ calls[k].headers["x-api-key"] = <<ValueOf("api_key")>>
              /\ calls[k].method = "POST" =>
                    calls[k].payload.json["api_key"] = req.body.json["api_key"]
              /\ calls[k].method = "GET" => calls[k].payload.kind = "none"

C36_Witness ==
    /\ Len(calls) = 8
    /\ calls[8].method = "GET"
    /\ ValueOf("api_key") = "key-2"
    /\ Len(calls[8].query) = 5
    /\ "Authorization" \in DOMAIN calls[8].headers


PostCalls == {k \in 1..Len(calls) : calls[k].method = "POST"}

\* C37: in one invocation no (URL, method) pair is requested twice, at most
\* 2 x |endpoints| = 8 upstream requests are issued, every POST request precedes every GET
\* request, and the POST requests as well as the GET requests go to the candidates in
\* list order, from the first one on.
C37_EachPairOnceInOrder ==
    /\ \A j, k \in 1..Len(calls) :
          (calls[j].url = calls[k].url /\ calls[j].method = calls[k].method) => j = k
    /\ Len(calls) <= 2 * Len(endpoints)
    /\ Len(calls) <= 8
    /\ \A j \in PostCalls, k \in GetCalls : j < k
    /\ \A k \in PostCalls : calls[k].url = endpoints[k]
    /\ \A k \in GetCalls : calls[k].url = endpoints[k - Cardinality(PostCalls)]
    /\ PostCalls \cup GetCalls = 1..Len(calls)

C37_Witness ==
    /\ Finished
    /\ Len(calls) = 8
    /\ PostCalls = 1..4
    /\ GetCalls = 5..8
    /\ calls[8].url = endpoints[4]
    /\ Is405(8)


-----------------------------------------------------------------------------
(* The turns that unmounted chat components have left running.  UiSpec     *)
(* follows the mounted component only; here a handleSubmit whose component *)
(* was unmounted goes on reading its stream and calling setMessages and    *)
(* setIsStreaming of the component instance it was started in.             *)

\* mutation of SetStateOfUnmounted: the update reaches the component mounted now
SetStateOfUnmounted_applied(current, update) == update

\* a state setter of an unmounted component instance: React drops the update, and the
\* instance mounted now has its own state
SetStateOfUnmounted(current, update) == current

\* the number of detached turns that are followed at a time
MaxDetached == 1

\* the video a turn of the mounted component is about: 0 for the turns of ChatWithAll
TurnVideo == IF activeTab = "chat-video" THEN selectedVideo ELSE 0

\* the running turn of the component that is being unmounted goes on without it
Detach ==
    IF inFlight > 0
      THEN /\ Cardinality(detached) < MaxDetached
           /\ detached' = detached \cup {[video |-> TurnVideo, stage |-> "started"]}
      ELSE detached' = detached

\* a detached turn gets a fragment: setMessages(prev => [...prev.slice(0, -1), {...}])
DetachedChunk(turn) ==
    /\ turn \in detached
    /\ turn.stage = "started"
    /\ detached' = (detached \ {turn}) \cup {[turn EXCEPT !.stage = "streaming"]}
    /\ messages' = SetStateOfUnmounted(messages, ReplaceLast(messages, Content(<<>>, <<65>>)))
    /\ UNCHANGED <<activeTab, selectedVideo, input, isStreaming, assistantMessage, inFlight, discarded>>
    /\ UNCHANGED <<handlerVars, consumerVars, upstreamBody, suspended>>

\* the stream of a detached turn ends: finally { setIsStreaming(false) }
DetachedEnds(turn) ==
    /\ turn \in detached
    /\ detached' = detached \ {turn}
    /\ isStreaming' = SetStateOfUnmounted(isStreaming, FALSE)
    /\ UNCHANGED <<activeTab, selectedVideo, messages, input, assistantMessage, inFlight, discarded>>
    /\ UNCHANGED <<handlerVars, consumerVars, upstreamBody, suspended>>

\* the stream of a detached turn fails: catch { setMessages(...) } finally
\* { setIsStreaming(false) }
DetachedFails(turn, exc) ==
    /\ turn \in detached
    /\ detached' = detached \ {turn}
    /\ messages' = SetStateOfUnmounted(messages, ReplaceLast(messages, ErrorContent(exc)))
    /\ isStreaming' = SetStateOfUnmounted(isStreaming, FALSE)
    /\ UNCHANGED <<activeTab, selectedVideo, input, assistantMessage, inFlight, discarded>>
    /\ UNCHANGED <<handlerVars, consumerVars, upstreamBody, suspended>>

RemountNext ==
    \/ \E tab \in Tabs : SetActiveTab(tab) /\ Detach
    \/ \E video \in VideoIds : handleStartChat(video) /\ Detach
    \/ \E video \in VideoIds : onVideoSelect(video)
    \/ onBackToSearch /\ Detach
    \/ \E text \in {<<32, 113, 32>>} : SetInput(text)
    \/ \E env \in {Env(Str("key-1"), Undefined)} : handleSubmit(env)
    \/ ChunkReceived
    \/ TurnCompleted
    \/ TurnFailed
    \/ \E ans \in {a \in UiAnswers : a.status = 200} : ChatFetchResolved(ans, {<<65>>})
    \/ \E exc \in Exceptions : ChatFetchRejected(exc)
    \/ \E n \in 1..MaxBodyLen : ReadValue(n)
    \/ ReadDone
    \/ \E turn \in detached : DetachedChunk(turn)
    \/ \E turn \in detached : DetachedEnds(turn)
    \/ \E turn \in detached, exc \in Exceptions : DetachedFails(turn, exc)

RemountSpec == Init /\ [][RemountNext]_vars

\* a step of a detached turn: one of them advances or ends, none is added
DetachedStep == detached' # detached /\ ~(detached \subseteq detached')

\* C38: a turn that was started before the message list was reset (its component was
\* unmounted, and the list of the component mounted afterwards starts empty or was
\* emptied when the selected video changed) writes nothing into the conversation shown:
\* its steps leave messages, input and isStreaming alone, so that the list holds whole
\* turns of the mounted component only and isStreaming follows its own turn.
C38_DetachedTurnsWriteNothing ==
    /\ []((Len(messages) % 2 = 0) /\ (isStreaming <=> inFlight > 0))
    /\ [][DetachedStep => UNCHANGED <<messages, input, isStreaming, assistantMessage>>]_vars

\* the turn started for video 1 is still streaming while the component shows the
\* conversation of video 2, with a turn of its own that has received a fragment
C38_Witness ==
    /\ activeTab = "chat-video"
    /\ selectedVideo = 2
    /\ [video |-> 1, stage |-> "streaming"] \in detached
    /\ discarded.video = 1
    /\ inFlight = 1
    /\ Len(messages) = 2
    /\ messages[2].content = Content(<<>>, <<65>>)


-----------------------------------------------------------------------------
(* A consumer that gives the generator up before the stream has ended.     *)

\* mutation of Abandon: the generator is finished without its finally block
Abandon_lockKept ==
    /\ gen = "yield"
    /\ gen' = "returned"
    /\ UNCHANGED <<apiKey, chatArgs, fetches, chatResponse, wire, delivered, decoder, fragments, locked, eos, raised, chatErrorText>>
    /\ UNCHANGED <<handlerVars, uiVars, upstreamBody, suspended, detached>>

\* the consumer leaves its loop (return() of the generator, passed on by yield*) while
\* the generator waits at `yield chunk`: the finally block releases the lock and the
\* generator is finished
Abandon ==
    /\ gen = "yield"
    /\ locked' = FALSE
    /\ gen' = "returned"
    /\ UNCHANGED <<apiKey, chatArgs, fetches, chatResponse, wire, delivered, decoder, fragments, eos, raised, chatErrorText>>
    /\ UNCHANGED <<handlerVars, uiVars, upstreamBody, suspended, detached>>

AbandonNext ==
    \/ \E call \in ConsumerCalls, env \in ConsumerEnvs : Chat(call, env)
    \/ \E ans \in Answers : ChatFetchResolved(ans, Bodies)
    \/ \E exc \in Exceptions : ChatFetchRejected(exc)
    \/ \E text \in ErrorBodies : ChatTextResolved(text)
    \/ \E exc \in Exceptions : ChatTextRejected(exc)
    \/ \E n \in 1..MaxBodyLen : ReadValue(n)
    \/ ReadDone
    \/ \E exc \in Exceptions : ReadRejected(exc)
    \/ Resume
    \/ Abandon

AbandonSpec == Init /\ [][AbandonNext]_vars

GeneratorFinished == gen \in {"returned", "threw"}

\* C39: the reader lock is released on every way of finishing: the lock is held only
\* while the generator is reading or waiting at a yield, it is never held once the
\* generator has finished, and each step that finishes a generator holding the lock (end
\* of stream, a failed read, the consumer giving up) releases it.
C39_LockReleasedOnEveryExit ==
    /\ [](locked => gen \in {"read", "yield"})
    /\ [](GeneratorFinished => ~locked)
    /\ [][(locked /\ GeneratorFinished') => ~locked']_vars

\* the consumer has given up after the first fragment, with the rest of the body unread
C39_Witness ==
    /\ gen = "returned"
    /\ ~eos
    /\ wire # <<>>
    /\ Len(fragments) = 1
    /\ ~locked


-----------------------------------------------------------------------------
(* Submits that are ignored.                                               *)

\* the text is empty or has white space only
Blank(text) == \A k \in DOMAIN text : text[k] \in Whitespace

\* `trimmed` is `text` without the white space at its two ends
TrimmedFrom(trimmed, text) ==
    /\ trimmed # <<>>
    /\ trimmed[1] \notin Whitespace
    /\ trimmed[Len(trimmed)] \notin Whitespace
    /\ \E a \in 0..Len(text) :
          /\ a + Len(trimmed) <= Len(text)
          /\ SubSeq(text, a + 1, a + Len(trimmed)) = trimmed
          /\ Blank(SubSeq(text, 1, a))
          /\ Blank(SubSeq(text, a + Len(trimmed) + 1, Len(text)))

\* a step that appends a message, sets isStreaming or issues a request
TurnBegins ==
    \/ Len(messages') > Len(messages)
    \/ isStreaming' /\ ~isStreaming
    \/ Len(fetches') > Len(fetches)

\* C40: while the input is empty or white space only, or ChatWithVideo has no video
\* selected, no step appends a message, sets isStreaming or issues a request; and the
\* user message of every turn that is started is the input without the white space at
\* its ends, followed by the empty placeholder.
C40_BlankSubmitIgnored ==
    [][TurnBegins =>
          /\ ~Blank(input)
          /\ activeTab \in ChatTabs
          /\ activeTab = "chat-video" => selectedVideo # 0
          /\ ~isStreaming
          /\ Len(messages') = Len(messages) + 2
          /\ messages'[Len(messages) + 1].role = "user"
          /\ messages'[Len(messages) + 1].content.literal = <<>>
          /\ TrimmedFrom(messages'[Len(messages) + 1].content.chars, input)
          /\ messages'[Len(messages) + 2] = AssistantSays(<<>>)]_vars

\* after a turn whose user message is the trimmed input, the input has white space
\* only: a submit is ignored
C40_Witness ==
    /\ activeTab = "chat-video"
    /\ selectedVideo # 0
    /\ Len(messages) = 2
    /\ messages[1] = UserSays(<<113>>)
    /\ input = <<32>>
    /\ ~isStreaming
    /\ gen = "idle"
    /\ fetches = <<>>
    /\ Ignored(activeTab, selectedVideo, input, isStreaming)

====
